---- MODULE Spec2Model ----
(***************************************************************************)
(* Time-integration layer of cardillo: Moreau.solve with its two prox      *)
(* solvers, consistent_initial_conditions, the constructors of             *)
(* LobattoIIIAB and RadauIIa, and CosseratRod.step_callback.               *)
(*                                                                         *)
(* Numbers are integers in model units.  numpy arrays live in a heap       *)
(* (a sequence of integer tuples); a Python name bound to an array is an   *)
(* address, so that aliasing and in-place writes are visible.              *)
(*                                                                         *)
(* The mechanical system handed to the solvers is a unit point mass with   *)
(* one orientation node between a floor (contact 1, gap y) and a ceiling   *)
(* (contact 2, gap H - y), each contact with one friction component along  *)
(* x, and one bilateral constraint z = 0.                                  *)
(*   q = <<x, y, z, ang, e>>      u = <<ux, uy, uz, w>>                    *)
(* The quaternion block p of the node is kept in polar form: its norm is   *)
(* (5/4)^e and its rotation angle is ang*atan(3/4); w = 1 is the angular   *)
(* speed with dt*|omega|/2 = 3/4, for which one explicit Euler update      *)
(* p + dt*T(p)*omega multiplies the norm by exactly 5/4.                   *)
(***************************************************************************)
EXTENDS Integers, Sequences, FiniteSets, TLC

VARIABLES
    solver,     \* class being run: "Moreau", "LobattoIIIAB" or "RadauIIa"
    method,     \* prox_solver_method of Moreau
    sys,        \* the system (model) object: parameters and initial arrays
    cic_in,     \* values the system callbacks return at (t0, q0, u0)
    t1, dt,     \* constructor arguments
    pc,         \* position of the run
    heap,       \* numpy arrays, by address
    self,       \* fields of the integrator object
    loc,        \* locals of solve(): loop index and the tuple step() returned
    rec,        \* the lists q, u, la_g, la_gamma, P_N, P_T of solve()
    snap,       \* history: contents of every sample when it was appended
    cic,        \* outcome of consistent_initial_conditions
    hist,       \* history: counters of calls
    result,     \* the Solution returned by solve()
    rod,        \* a CosseratRod object: reference data, caches, last call
    radau,      \* a Radau / RadauIIa object and the position of its step
    joint,      \* a pair of spherical joints and the arguments of a call
    lobatto     \* a LobattoIIIAB object and the evaluations of its residual

solverVars == <<solver, method, sys, cic_in, t1, dt, pc, heap, self, loc, rec,
                snap, cic, hist, result>>

vars == <<solver, method, sys, cic_in, t1, dt, pc, heap, self, loc, rec, snap,
          cic, hist, result, rod, radau, joint, lobatto>>

-----------------------------------------------------------------------------
(* Bounds of the model *)
MaxRodCalls == 2        \* derivative routines called on one rod
MaxSteps == 2           \* accepted steps of one Radau solver
MinStepDen == 8         \* min_step of Radau is 1/MinStepDen
TBound == 2             \* t_bound of Radau
MaxT1 == 3              \* t1 ranges over 0..MaxT1
MaxDt == 2              \* dt ranges over 1..MaxDt
CeilingH == 2           \* height H of the ceiling
PMax == 2               \* largest impulse component a Newton iterate takes
fix_point_max_iter == 3 \* iteration cap of the fixed-point loop in the model
newton_max_iter == 2    \* iteration cap of the Newton loop in the model
MaxEvals == 3           \* evaluations of LobattoIIIAB.R in one nonlinear solve

(* Program constants, in model units *)
fix_point_tol == 1      \* error < fix_point_tol: the iterate did not change
newton_tol == 1         \* error < newton_tol: the residual is zero
atol == 1               \* np.allclose(x, 0, rtol, atol): |x| <= atol

-----------------------------------------------------------------------------
(* Small helpers *)
Abs(x) == IF x < 0 THEN -x ELSE x
Max2(a, b) == IF a >= b THEN a ELSE b
Sign(x) == IF x > 0 THEN 1 ELSE IF x < 0 THEN -1 ELSE 0
RECURSIVE MaxAbs(_)
MaxAbs(s) == IF s = <<>> THEN 0 ELSE Max2(Abs(Head(s)), MaxAbs(Tail(s)))

\* error_function = lambda x: np.max(np.abs(x))
error_function(R) == MaxAbs(R)

\* np.arange(t0, t1 + dt, dt) for integers: t0, t0+dt, ... < t1 + dt
arange(start, stop, step) ==
    LET n == IF stop <= start THEN 0 ELSE (stop - start + step - 1) \div step
    IN  [i \in 1..n |-> start + (i - 1) * step]

\* self.t1 = t1 if t1 > t0 else ValueError("t1 must be larger than initial
\* time t0."): a conditional expression; for t1 <= t0 its value is a
\* ValueError object, which is assigned and not raised
t1_attribute(t0, t_end) ==
    IF t_end > t0 THEN [kind |-> "number", value |-> t_end]
    ELSE [kind |-> "ValueError object", value |-> 0]

\* self.t = np.arange(t0, self.t1 + self.dt, self.dt): the sum of an
\* exception object and a number raises TypeError
time_grid(t0, t1_attr, step) ==
    IF t1_attr.kind = "number"
    THEN [raised |-> "no", t |-> arange(t0, t1_attr.value + step, step)]
    ELSE [raised |-> "TypeError", t |-> <<>>]

\* heap[a] := v; a = Len(h) + 1 allocates
Store(h, a, v) == IF a <= Len(h) THEN [h EXCEPT ![a] = v] ELSE Append(h, v)

-----------------------------------------------------------------------------
(* The system handed to the solvers (callback contract) *)
nu == 4
nla_g == 1
nla_N == 2
nla_T == 2
nR_smooth == nu + nla_g
NT_connectivity == <<(<<1>>), (<<2>>)>>

\* force vector h(t, q, u): constant load
h(sy) == <<sy.hx, sy.hy, sy.hz, 0>>
\* normal gaps: floor, ceiling
g_N(sy, q) == <<q[2], sy.H - q[2]>>
g_N_dot(u) == <<u[2], -u[2]>>
gamma_T(u) == <<u[1], u[1]>>
\* xi_N = g_N_dot(uk1) + e_N * g_N_dot(uk), xi_T = gamma_T(uk1)
xi_N(sy, uk, uk1) == <<g_N_dot(uk1)[1] + sy.e_N * g_N_dot(uk)[1],
                       g_N_dot(uk1)[2] + sy.e_N * g_N_dot(uk)[2]>>
xi_T(sy, uk, uk1) == gamma_T(uk1)
\* W_N @ P_N and W_T @ P_T as generalized forces
W_N(PN) == <<0, PN[1] - PN[2], 0, 0>>
W_T(PT) == <<PT[1] + PT[2], 0, 0, 0>>
\* bilateral constraint g = z: g_dot(u) = uz, W_g @ la_g
g_dot(u) == <<u[3]>>
W_g(la) == <<0, 0, la[1], 0>>

\* qk + dt * q_dot(tk, qk, uk): the centerline part is u; the quaternion
\* part T_SO3_inv_quat(p) @ omega is orthogonal to p, so the update turns p
\* by ang and stretches it by 5/4 when omega /= 0
q_dot_update(q, h_, u) ==
    <<q[1] + h_ * u[1], q[2] + h_ * u[2], q[3] + h_ * u[3],
      q[4] + u[4], q[5] + u[4]>>

\* a callback that returns q as it is
step_callback_NoNormalize(q, u) == [q |-> q, u |-> u]

\* CosseratRod.step_callback: p / norm(p) for every node, written into q
step_callback(q, u) == [q |-> <<q[1], q[2], q[3], q[4], 0>>, u |-> u]

\* projection onto the non-negative cone
prox_Rn0(x) == IF x > 0 THEN x ELSE 0
\* projection onto the disk (one friction component: an interval) of radius r
prox_circle(x, r) == IF Abs(x) <= r THEN x ELSE r * Sign(x)

\* the whole array returned, inactive entries included
Masked_Keep(I, v) == v

\* P = np.zeros(n); P[I] = v[I]
Masked(I, v) == <<IF I[1] THEN v[1] ELSE 0, IF I[2] THEN v[2] ELSE 0>>

\* compute_I_F / moreau.py line 78: [c for i, I_N_i in enumerate(I_N)
\* for c in NF_connectivity[i] if I_N_i], empty when no contact is active
compute_I_F(I_N, NF_connectivity) ==
    IF ~(\E i \in 1..Len(I_N) : I_N[i]) THEN <<>>
    ELSE (IF I_N[1] THEN NF_connectivity[1] ELSE <<>>)
         \o (IF I_N[2] THEN NF_connectivity[2] ELSE <<>>)

\* I_T: friction components of the active contacts
I_T(I_N) == {c \in 1..nla_T : \E i \in 1..nla_N :
                 I_N[i] /\ \E k \in 1..Len(NT_connectivity[i]) : NT_connectivity[i][k] = c}
ContactOf(c) == CHOOSE i \in 1..nla_N :
                 \E k \in 1..Len(NT_connectivity[i]) : NT_connectivity[i][k] = c

\* v[I_T] scattered into zeros(nla_T)
MaskedT(I_N, v) == <<IF 1 \in I_T(I_N) THEN v[1] ELSE 0,
                     IF 2 \in I_T(I_N) THEN v[2] ELSE 0>>

-----------------------------------------------------------------------------
(* Moreau.__step_fixed_point *)

\* spsolve(A, b): M = identity, g_dot_u @ uk1 = 0; only active columns of
\* W_N, W_T enter b
SolveSmooth(sy, h_, uk, I_N, PN, PT) ==
    LET fN == W_N(Masked(I_N, PN))
        fT == W_T(MaskedT(I_N, PT))
    IN  [u    |-> <<uk[1] + h_ * h(sy)[1] + fN[1] + fT[1],
                    uk[2] + h_ * h(sy)[2] + fN[2] + fT[2],
                    0,
                    uk[4] + h_ * h(sy)[4]>>,
         la_g |-> <<(0 - uk[3] - h_ * h(sy)[3]) \div h_>>]

\* the loop body without the projections
ProxN_NoProjection(sy, I_N, P_i, xiN) ==
    <<IF I_N[1] THEN P_i[1] - sy.prox_r_N[1] * xiN[1] ELSE P_i[1],
      IF I_N[2] THEN P_i[2] - sy.prox_r_N[2] * xiN[2] ELSE P_i[2]>>
ProxT_NoProjection(sy, I_N, T_i, P_i1, xiT) ==
    LET one(c) == LET i == ContactOf(c)
                  IN  IF I_N[i] THEN T_i[c] - sy.prox_r_T[i] * xiT[c]
                      ELSE T_i[c]
    IN  <<one(1), one(2)>>

\* one pass of the loop body, lines 114-119
ProxN(sy, I_N, P_i, xiN) ==
    <<IF I_N[1] THEN prox_Rn0(P_i[1] - sy.prox_r_N[1] * xiN[1]) ELSE P_i[1],
      IF I_N[2] THEN prox_Rn0(P_i[2] - sy.prox_r_N[2] * xiN[2]) ELSE P_i[2]>>
ProxT(sy, I_N, T_i, P_i1, xiT) ==
    LET one(c) == LET i == ContactOf(c)
                  IN  IF I_N[i]
                      THEN prox_circle(T_i[c] - sy.prox_r_T[i] * xiT[c],
                                       sy.mu[i] * P_i1[i])
                      ELSE T_i[c]
    IN  <<one(1), one(2)>>

FixErr(I_N, P_i, P_i1, T_i, T_i1) ==
    error_function(<<IF I_N[1] THEN P_i1[1] - P_i[1] ELSE 0,
                     IF I_N[2] THEN P_i1[2] - P_i[2] ELSE 0,
                     IF 1 \in I_T(I_N) THEN T_i1[1] - T_i[1] ELSE 0,
                     IF 2 \in I_T(I_N) THEN T_i1[2] - T_i[2] ELSE 0>>)

\* an active set that also takes contacts about to close
ActiveSet_WithMargin(gN) == <<gN[1] <= 1, gN[2] <= 1>>

\* I_N = (g_N <= 0)
ActiveSet(gN) == <<gN[1] <= 0, gN[2] <= 0>>

RECURSIVE FixPointLoop(_, _, _, _, _, _, _, _)
FixPointLoop(sy, h_, uk, I_N, j, P_i, T_i, s) ==
    LET P_i1 == ProxN(sy, I_N, P_i, xi_N(sy, uk, s.u))
        T_i1 == ProxT(sy, I_N, T_i, P_i1, xi_T(sy, uk, s.u))
        err  == FixErr(I_N, P_i, P_i1, T_i, T_i1)
        s1   == SolveSmooth(sy, h_, uk, I_N, P_i1, T_i1)
    IN  IF err < fix_point_tol
        THEN [converged |-> TRUE, j |-> j, iters |-> j + 1, error |-> err,
              u |-> s.u, la_g |-> s.la_g, P_N |-> Masked(I_N, P_i1),
              P_T |-> MaskedT(I_N, T_i1), wN |-> P_i1, wT |-> T_i1]
        ELSE IF j + 1 >= fix_point_max_iter
        THEN [converged |-> FALSE, j |-> j, iters |-> j + 1, error |-> err,
              u |-> s1.u, la_g |-> s1.la_g, P_N |-> <<0, 0>>,
              P_T |-> <<0, 0>>, wN |-> P_i1, wT |-> T_i1]
        ELSE FixPointLoop(sy, h_, uk, I_N, j + 1, P_i1, T_i1, s1)

\* the values __step_fixed_point computes from the accepted state
StepFixedPoint(sy, h_, tk, qk, uk, P_Nk, P_Tk) ==
    LET qk1 == q_dot_update(qk, h_, uk)
        gN  == g_N(sy, qk1)
        I_N == ActiveSet(gN)
        s0  == SolveSmooth(sy, h_, uk, I_N, P_Nk, P_Tk)
        any == I_N[1] \/ I_N[2]
        r   == IF ~any
               THEN [converged |-> TRUE, j |-> 0, iters |-> 0, error |-> 0,
                     u |-> s0.u, la_g |-> s0.la_g, P_N |-> <<0, 0>>,
                     P_T |-> <<0, 0>>, wN |-> P_Nk, wT |-> P_Tk]
               ELSE IF fix_point_max_iter = 0
               THEN [converged |-> FALSE, j |-> 0, iters |-> 0, error |-> 0,
                     u |-> s0.u, la_g |-> s0.la_g, P_N |-> <<0, 0>>,
                     P_T |-> <<0, 0>>, wN |-> P_Nk, wT |-> P_Tk]
               ELSE FixPointLoop(sy, h_, uk, I_N, 0, P_Nk, P_Tk, s0)
    IN  [converged |-> r.converged, j |-> r.j, error |-> r.error,
         tk1 |-> tk + h_, qk1 |-> qk1, uk1 |-> r.u, la_gk1 |-> r.la_g,
         la_gammak1 |-> <<>>, P_Nk1 |-> r.P_N, P_Tk1 |-> r.P_T,
         I_N |-> I_N, worked |-> any, wN |-> r.wN, wT |-> r.wT,
         iters |-> r.iters, P_N0 |-> P_Nk, P_T0 |-> P_Tk]

-----------------------------------------------------------------------------
(* Moreau.__step_newton and Moreau.__R_newton *)

\* number of active (kind = TRUE) or inactive contacts among 1..i
Rank(I_N, kind, i) == Cardinality({j \in 1..i : I_N[j] = kind})

\* P_Nk1[I_N] = xk1[nR_smooth : nR_smooth + nI_N],
\* P_Nk1[~I_N] = xk1[nR_smooth + nI_N : nR_smooth + nla_N]
UnpackP_N(I_N, xk1) ==
    LET nI_N   == Rank(I_N, TRUE, nla_N)
        at(i)  == IF I_N[i] THEN xk1[nR_smooth + Rank(I_N, TRUE, i)]
                  ELSE xk1[nR_smooth + nI_N + Rank(I_N, FALSE, i)]
    IN  <<at(1), at(2)>>

\* P_Tk1 = xk1[nR_smooth + nla_N:]
UnpackP_T(xk1) == <<xk1[nR_smooth + nla_N + 1], xk1[nR_smooth + nla_N + 2]>>

\* xk1 = np.concatenate((uk1, la_gk1, la_gammak1, P_Nk1, P_Tk1))
Pack(u, la, PN, PT) == u \o la \o PN \o PT

R_newton(sy, h_, uk, I_N, xk1) ==
    LET uk1  == SubSeq(xk1, 1, nu)
        la   == SubSeq(xk1, nu + 1, nu + nla_g)
        PN   == UnpackP_N(I_N, xk1)
        PT   == UnpackP_T(xk1)
        xiN  == xi_N(sy, uk, uk1)
        xiT  == xi_T(sy, uk, uk1)
        Ru(d) == (uk1[d] - uk[d]) - h_ * (h(sy)[d] + W_g(la)[d])
                 - W_N(PN)[d] - W_T(PT)[d]
        RN(i) == IF I_N[i]
                 THEN PN[i] - prox_Rn0(PN[i] - sy.prox_r_N[i] * xiN[i])
                 ELSE PN[i]
        RT(c) == LET i == ContactOf(c)
                 IN  IF I_N[i]
                     THEN PT[c] - prox_circle(PT[c] - sy.prox_r_T[i] * xiT[c],
                                              sy.mu[i] * PN[i])
                     ELSE PT[c]
    IN  <<Ru(1), Ru(2), Ru(3), Ru(4)>> \o g_dot(uk1)
        \o <<RN(1), RN(2)>> \o <<RT(1), RT(2)>>

\* Iterates the Newton update can produce.  The rows of R for uk1, for la_g
\* and for the impulses of inactive contacts are linear, so every iterate
\* after an update satisfies them; the impulse slots of the active contacts
\* range over a box.
SlotN(I_N, s) == IF s <= Rank(I_N, TRUE, nla_N) THEN -1..PMax ELSE {0}
SlotT(I_N, c) == IF c \in I_T(I_N) THEN -PMax..PMax ELSE {0}
NewtonIterates(sy, h_, uk, I_N) ==
    { LET PN == UnpackP_N(I_N, <<0, 0, 0, 0, 0>> \o sN \o sT)
          PT == UnpackP_T(<<0, 0, 0, 0, 0>> \o sN \o sT)
      IN  <<uk[1] + h_ * h(sy)[1] + W_N(PN)[1] + W_T(PT)[1],
            uk[2] + h_ * h(sy)[2] + W_N(PN)[2] + W_T(PT)[2],
            0,
            uk[4] + h_ * h(sy)[4]>>
          \o <<(0 - uk[3] - h_ * h(sy)[3]) \div h_>> \o sN \o sT :
        sN \in SlotN(I_N, 1) \X SlotN(I_N, 2),
        sT \in SlotT(I_N, 1) \X SlotT(I_N, 2) }

\* the tuples __step_newton can return from the accepted state
StepNewton(sy, h_, tk, qk, uk, la_gk, P_Nk, P_Tk) ==
    LET qk1 == q_dot_update(qk, h_, uk)
        gN  == g_N(sy, qk1)
        I_N == ActiveSet(gN)
        x0  == Pack(uk, la_gk, P_Nk, P_Tk)
        e0  == error_function(R_newton(sy, h_, uk, I_N, x0))
        ret(c, j, n, e, u, la, PN, PT) ==
            [converged |-> c, j |-> j, error |-> e, tk1 |-> tk + h_,
             qk1 |-> qk1, uk1 |-> u, la_gk1 |-> la, la_gammak1 |-> <<>>,
             P_Nk1 |-> PN, P_Tk1 |-> PT, I_N |-> I_N, worked |-> TRUE,
             wN |-> PN, wT |-> PT, iters |-> n,
             P_N0 |-> UnpackP_N(I_N, x0), P_T0 |-> UnpackP_T(x0)]
        after(x, j) ==
            LET e == error_function(R_newton(sy, h_, uk, I_N, x))
            IN  ret(e < newton_tol, j, j + 1, e, SubSeq(x, 1, nu),
                    SubSeq(x, nu + 1, nu + nla_g), UnpackP_N(I_N, x),
                    UnpackP_T(x))
    IN  IF e0 < newton_tol \/ newton_max_iter = 0
        THEN {ret(e0 < newton_tol, 0, 0, e0, uk, la_gk, P_Nk, P_Tk)}
        ELSE LET all == {after(x, 0) : x \in NewtonIterates(sy, h_, uk, I_N)}
                 ok  == {r \in all : r.converged}
                 bad == {r \in all : ~r.converged /\ r.P_Tk1 = <<0, 0>>
                                     /\ r.P_Nk1 \in {<<0, 0>>, <<PMax, PMax>>}}
             IN  ok \cup {[r EXCEPT !.j = newton_max_iter - 1,
                                    !.iters = newton_max_iter] : r \in bad}

-----------------------------------------------------------------------------
(* consistent_initial_conditions *)

\* np.allclose(x, np.zeros(n), rtol, atol): |x_i| <= atol + rtol * |0|
allclose0(x) == \A i \in 1..Len(x) : Abs(x[i]) <= atol

\* number of values in the returned tuple, and of names LobattoIIIAB.__init__
\* unpacks it into
cic_tuple_len == 7
lobatto_unpack_len == 9

\* lines 14-19 with the velocity check left out
assert_g_N_dot_Skipped(ci) == TRUE

\* lines 14-19: I_N = g_N <= 0;
\* assert np.all(I_N * g_N_dot >= 0) or np.allclose(I_N * g_N_dot, 0)
assert_g_N_dot(ci) ==
    LET n    == Len(ci.g_N)
        IgN  == [i \in 1..n |-> IF ci.g_N[i] <= 0 THEN ci.g_N_dot[i] ELSE 0]
    IN  (\A i \in 1..n : IgN[i] >= 0) \/ allclose0(IgN)

\* lines 78-81: B_N = I_N * (g_N_dot <= 0);
\* assert np.all(g_N_ddot >= 0) or np.allclose(B_N * g_N_ddot, 0)
assert_g_N_ddot(ci) ==
    LET n    == Len(ci.g_N)
        BgN  == [i \in 1..n |-> IF ci.g_N[i] <= 0 /\ ci.g_N_dot[i] <= 0
                                THEN ci.g_N_ddot[i] ELSE 0]
    IN  (\A i \in 1..n : ci.g_N_ddot[i] >= 0) \/ allclose0(BgN)

\* lines 86-103 with the acceleration-level assertions left out
assert_bilateral_NoAcceleration(ci) ==
    IF ~allclose0(ci.g) THEN "assert g"
    ELSE IF ~allclose0(ci.g_dot) THEN "assert g_dot"
    ELSE IF ~allclose0(ci.gamma) THEN "assert gamma"
    ELSE IF ~allclose0(ci.g_S) THEN "assert g_S"
    ELSE "returned"

\* lines 86-103: the first assertion on the bilateral constraints that fails
assert_bilateral(ci) ==
    IF ~allclose0(ci.g) THEN "assert g"
    ELSE IF ~allclose0(ci.g_dot) THEN "assert g_dot"
    ELSE IF ~allclose0(ci.g_ddot) THEN "assert g_ddot"
    ELSE IF ~allclose0(ci.gamma) THEN "assert gamma"
    ELSE IF ~allclose0(ci.gamma_dot) THEN "assert gamma_dot"
    ELSE IF ~allclose0(ci.g_S) THEN "assert g_S"
    ELSE "returned"

\* the first assertion that fails, or "returned"
consistent_initial_conditions(ci) ==
    IF ~(\A i \in 1..Len(ci.g_N) : ci.g_N[i] >= 0) THEN "assert g_N"
    ELSE IF ~assert_g_N_dot(ci) THEN "assert g_N_dot"
    ELSE IF ~assert_g_N_ddot(ci) THEN "assert g_N_ddot"
    ELSE assert_bilateral(ci)

-----------------------------------------------------------------------------
(* Initial states: the arguments of a run *)

\* addresses of the arrays the system object holds
A_q0 == 1
A_u0 == 2
A_la_g0 == 3
A_la_gamma0 == 4
A_la_N0 == 5
A_la_T0 == 6

Systems ==
    [t0 : {0}, H : {CeilingH}, hx : {0, 1}, hy : {-1, 0}, hz : {1},
     mu : {<<0, 0>>, <<1, 1>>}, prox_r_N : {<<1, 1>>, <<2, 2>>},
     prox_r_T : {<<1, 1>>}, e_N : {0}]

InitialHeaps ==
    { <<(<<0, y0, 0, 0, 0>>), (<<ux0, uy0, 0, w0>>), (<<0>>), (<<>>), laN, (<<0, 0>>)>> :
        y0 \in 0..CeilingH, ux0 \in {0, 1}, uy0 \in {-1, 0, 1}, w0 \in {0, 1},
        laN \in {<<0, 0>>, <<1, 0>>} }

\* callback values of a system whose initial conditions are consistent
ConsistentCic ==
    [g_N |-> <<1, 1>>, g_N_dot |-> <<0, 0>>, g_N_ddot |-> <<0, 0>>,
     g |-> <<0>>, g_dot |-> <<0>>, g_ddot |-> <<0>>, gamma |-> <<0>>,
     gamma_dot |-> <<0>>, g_S |-> <<0>>]

CicInputs ==
    [g_N : {-1, 0, 1} \X {0, 1}, g_N_dot : {-2, -1, 0, 2} \X {0, 2},
     g_N_ddot : {-2, 0} \X {0, 1},
     g : {<<-2>>, <<0>>, <<1>>, <<2>>}, g_dot : {<<0>>, <<2>>},
     g_ddot : {<<0>>, <<-2>>}, gamma : {<<0>>, <<2>>},
     gamma_dot : {<<0>>, <<2>>}, g_S : {<<0>>, <<2>>}]

DefaultSystem ==
    [t0 |-> 0, H |-> CeilingH, hx |-> 0, hy |-> 0, hz |-> 0, mu |-> <<0, 0>>,
     prox_r_N |-> <<1, 1>>, prox_r_T |-> <<1, 1>>, e_N |-> 0]
DefaultHeap == <<(<<0, 1, 0, 0, 0>>), (<<0, 0, 0, 0>>), (<<0>>), (<<>>), (<<0, 0>>), (<<0, 0>>)>>

NoSelf == [t |-> <<>>, tk |-> 0, qk |-> 0, uk |-> 0, la_gk |-> 0,
           la_gammak |-> 0, P_Nk |-> 0, P_Tk |-> 0]
NoRet == [converged |-> FALSE, j |-> 0, error |-> 0, tk1 |-> 0, qk1 |-> 0,
          uk1 |-> 0, la_gk1 |-> 0, la_gammak1 |-> 0, P_Nk1 |-> 0, P_Tk1 |-> 0,
          I_N |-> <<FALSE, FALSE>>, iters |-> 0, P_N0 |-> <<>>, P_T0 |-> <<>>]
NoLists == [q |-> <<>>, u |-> <<>>, la_g |-> <<>>, la_gamma |-> <<>>,
            P_N |-> <<>>, P_T |-> <<>>]
NoResult == [kind |-> "none", t |-> <<>>, q |-> <<>>, u |-> <<>>, la_g |-> <<>>,
             la_gamma |-> <<>>, P_N |-> <<>>, P_T |-> <<>>]

\* objects that take no part in a run of the time-stepping solvers
NoRod == [pc |-> "none"]
NoRadau == [pc |-> "none"]
NoJoint == [pc |-> "none"]
NoLobatto == [pc |-> "none"]

Init ==
    /\ \/ /\ solver = "Moreau"
          /\ t1 \in 0..MaxT1
          /\ dt \in 1..MaxDt
          /\ method \in {"fixed-point", "newton"}
          /\ sys \in Systems \cup {DefaultSystem}
          /\ heap \in InitialHeaps
          /\ cic_in = ConsistentCic
       \/ /\ solver = "LobattoIIIAB"
          /\ t1 \in 0..1 /\ dt = 1
          /\ method = "fixed-point"
          /\ sys = DefaultSystem
          /\ heap = DefaultHeap
          /\ cic_in \in CicInputs
       \/ /\ solver \in {"RadauIIa", "Moreau_sym"}
          /\ t1 \in 0..MaxT1
          /\ dt \in 1..MaxDt
          /\ method = "fixed-point"
          /\ sys = DefaultSystem
          /\ heap = DefaultHeap
          /\ cic_in = ConsistentCic
    /\ pc = "new"
    /\ self = NoSelf
    /\ loc = [k |-> 0, ret |-> NoRet]
    /\ rec = NoLists
    /\ snap = NoLists
    /\ cic = [calls |-> 0, status |-> "not called", before_steps |-> TRUE]
    /\ hist = [steps |-> 0, callbacks |-> 0, cb_q |-> <<>>, cb_u |-> <<>>]
    /\ result = NoResult
    /\ rod = NoRod
    /\ radau = NoRadau
    /\ joint = NoJoint
    /\ lobatto = NoLobatto

-----------------------------------------------------------------------------
(* Constructors *)

\* Moreau.__init__
MoreauInit ==
    /\ pc = "new" /\ solver = "Moreau"
    /\ \E g \in {time_grid(sys.t0, t1_attribute(sys.t0, t1), dt)} :
         IF g.raised # "no"
         THEN /\ pc' = "raised"
              /\ result' = [NoResult EXCEPT !.kind = g.raised]
              /\ UNCHANGED <<self, heap>>
         ELSE /\ self' = [t |-> g.t, tk |-> sys.t0, qk |-> A_q0,
                          uk |-> A_u0, la_gk |-> A_la_g0,
                          la_gammak |-> A_la_gamma0,
                          P_Nk |-> Len(heap) + 1, P_Tk |-> Len(heap) + 2]
              /\ heap' = heap \o
                    << <<heap[A_la_N0][1] * dt, heap[A_la_N0][2] * dt>>,
                       <<heap[A_la_T0][1] * dt, heap[A_la_T0][2] * dt>> >>
              /\ pc' = "constructed"
              /\ result' = result
    /\ UNCHANGED <<rod, radau, joint, lobatto, solver, method, sys, cic_in, t1, dt, loc, rec, snap, cic,
                   hist>>

\* Moreau_sym.__init__, lines 292-296: the time grid
MoreauSymInit ==
    /\ pc = "new" /\ solver = "Moreau_sym"
    /\ \E g \in {time_grid(sys.t0, t1_attribute(sys.t0, t1), dt)} :
         IF g.raised # "no"
         THEN /\ pc' = "raised"
              /\ result' = [NoResult EXCEPT !.kind = g.raised]
              /\ self' = self
         ELSE /\ self' = [NoSelf EXCEPT !.t = g.t, !.tk = sys.t0]
              /\ pc' = "constructed"
              /\ result' = result
    /\ UNCHANGED <<rod, radau, joint, lobatto, solver, method, sys, cic_in, t1, dt, heap, loc, rec, snap,
                   cic, hist>>

\* LobattoIIIAB.__init__: the time grid (lines 32-38), then the tuple
\* consistent_initial_conditions returns is unpacked into
\* lobatto_unpack_len names
LobattoInit ==
    /\ pc = "new" /\ solver = "LobattoIIIAB"
    /\ \E g \in {time_grid(sys.t0, t1_attribute(sys.t0, t1), dt)} :
         IF g.raised # "no"
         THEN /\ pc' = "raised"
              /\ result' = [NoResult EXCEPT !.kind = g.raised]
              /\ cic' = cic
         ELSE LET st == consistent_initial_conditions(cic_in)
              IN  /\ cic' = [calls |-> cic.calls + 1, status |-> st,
                             before_steps |-> hist.steps = 0]
                  /\ IF st /= "returned"
                     THEN /\ pc' = "raised"
                          /\ result' = [NoResult EXCEPT !.kind = "AssertionError"]
                     ELSE IF cic_tuple_len /= lobatto_unpack_len
                     THEN /\ pc' = "raised"
                          /\ result' = [NoResult EXCEPT !.kind = "ValueError"]
                     ELSE /\ pc' = "constructed"
                          /\ result' = result
    /\ UNCHANGED <<rod, radau, joint, lobatto, solver, method, sys, cic_in, t1, dt, heap, self, loc, rec,
                   snap, hist>>

\* RadauIIa.__init__: the time grid t_eval (lines 739-744); y0 is filled
\* from system.q0, u0, la_g0, la_gamma0
RadauInit ==
    /\ pc = "new" /\ solver = "RadauIIa"
    /\ \E g \in {time_grid(sys.t0, t1_attribute(sys.t0, t1), dt)} :
         IF g.raised # "no"
         THEN /\ pc' = "raised"
              /\ result' = [NoResult EXCEPT !.kind = g.raised]
              /\ self' = self
         ELSE /\ self' = [NoSelf EXCEPT !.t = g.t, !.tk = sys.t0]
              /\ pc' = "constructed"
              /\ result' = result
    /\ UNCHANGED <<rod, radau, joint, lobatto, solver, method, sys, cic_in, t1, dt, heap, loc, rec, snap,
                   cic, hist>>

-----------------------------------------------------------------------------
(* Moreau.solve *)

\* no copy: the name is bound to the array itself
np_copy_Alias(h_, a) == a

\* address of arr.copy() in heap h_: a fresh array
np_copy(h_, a) == Len(h_) + 1

\* solve() without the raise, and solve() without the callback
AfterStep_NoRaise(converged) == "converged"
AfterStep_SkipCallback(converged) == IF converged THEN "called_back" ELSE "raised"

\* lines 270-273: where solve() goes after step() returned
AfterStep(converged) == IF converged THEN "converged" ELSE "raised"

\* lines 259-266
SolveBegin ==
    /\ pc = "constructed" /\ solver = "Moreau"
    /\ rec' = [q |-> <<self.qk>>, u |-> <<self.uk>>, la_g |-> <<self.la_gk>>,
               la_gamma |-> <<self.la_gammak>>, P_N |-> <<self.P_Nk>>,
               P_T |-> <<self.P_Tk>>]
    /\ snap' = [q |-> <<heap[self.qk]>>, u |-> <<heap[self.uk]>>,
                la_g |-> <<heap[self.la_gk]>>,
                la_gamma |-> <<heap[self.la_gammak]>>,
                P_N |-> <<heap[self.P_Nk]>>, P_T |-> <<heap[self.P_Tk]>>]
    /\ loc' = [k |-> 0, ret |-> NoRet]
    /\ pc' = "loop"
    /\ UNCHANGED <<rod, radau, joint, lobatto, solver, method, sys, cic_in, t1, dt, heap, self, cic, hist,
                   result>>

\* the tuples self.step() can return
StepResults ==
    IF method = "fixed-point"
    THEN {StepFixedPoint(sys, dt, self.tk, heap[self.qk], heap[self.uk],
                         heap[self.P_Nk], heap[self.P_Tk])}
    ELSE StepNewton(sys, dt, self.tk, heap[self.qk], heap[self.uk],
                    heap[self.la_gk], heap[self.P_Nk], heap[self.P_Tk])

\* line 268: one call of self.step().  The arrays it returns are new ones;
\* the arrays it writes in place are the copies of self.P_Nk and self.P_Tk
\* (the iterates P_Nk1_i1, P_Tk1_i1 of the fixed-point loop, the returned
\* P_Nk1, P_Tk1 of the Newton loop).
Step ==
    /\ pc = "loop" /\ loc.k < Len(self.t) - 1
    /\ \E r \in StepResults :
         LET h1 == Append(heap, r.qk1)
             h2 == Append(h1, r.uk1)
             h3 == Append(h2, r.la_gk1)
             h4 == Append(h3, r.la_gammak1)
             aN == IF r.worked THEN np_copy(h4, self.P_Nk) ELSE 0
             h5 == IF r.worked THEN Store(h4, aN, r.wN) ELSE h4
             aT == IF r.worked THEN np_copy(h5, self.P_Tk) ELSE 0
             h6 == IF r.worked THEN Store(h5, aT, r.wT) ELSE h5
             newton == method = "newton"
             h7 == IF newton THEN h6 ELSE Append(h6, r.P_Nk1)
             h8 == IF newton THEN h7 ELSE Append(h7, r.P_Tk1)
         IN  /\ heap' = h8
             /\ loc' = [loc EXCEPT !.ret =
                  [converged |-> r.converged, j |-> r.j, error |-> r.error,
                   tk1 |-> r.tk1, qk1 |-> Len(h1), uk1 |-> Len(h2),
                   la_gk1 |-> Len(h3), la_gammak1 |-> Len(h4),
                   P_Nk1 |-> IF newton THEN aN ELSE Len(h7),
                   P_Tk1 |-> IF newton THEN aT ELSE Len(h8),
                   I_N |-> r.I_N, iters |-> r.iters, P_N0 |-> r.P_N0,
                   P_T0 |-> r.P_T0]]
    /\ hist' = [hist EXCEPT !.steps = @ + 1]
    /\ pc' = "stepped"
    /\ UNCHANGED <<rod, radau, joint, lobatto, solver, method, sys, cic_in, t1, dt, self, rec, snap, cic,
                   result>>

\* lines 270-271: raise RuntimeError if not converged
Check ==
    /\ pc = "stepped"
    /\ pc' = AfterStep(loc.ret.converged)
    /\ result' = IF pc' = "raised"
                 THEN [NoResult EXCEPT !.kind = "RuntimeError"] ELSE result
    /\ UNCHANGED <<rod, radau, joint, lobatto, solver, method, sys, cic_in, t1, dt, heap, self, loc, rec,
                   snap, cic, hist>>

\* line 273: qk1, uk1 = self.model.step_callback(tk1, qk1, uk1); the callback
\* writes into the array q and returns the same arrays
Callback ==
    /\ pc = "converged"
    /\ LET cb == step_callback(heap[loc.ret.qk1], heap[loc.ret.uk1])
       IN  /\ heap' = [heap EXCEPT ![loc.ret.qk1] = cb.q, ![loc.ret.uk1] = cb.u]
           /\ hist' = [hist EXCEPT !.callbacks = @ + 1, !.cb_q = cb.q,
                                   !.cb_u = cb.u]
    /\ pc' = "called_back"
    /\ UNCHANGED <<rod, radau, joint, lobatto, solver, method, sys, cic_in, t1, dt, self, loc, rec, snap,
                   cic, result>>

\* lines 275-280
AppendSample ==
    /\ pc = "called_back"
    /\ LET r == loc.ret
       IN  /\ rec' = [q |-> Append(rec.q, r.qk1), u |-> Append(rec.u, r.uk1),
                      la_g |-> Append(rec.la_g, r.la_gk1),
                      la_gamma |-> Append(rec.la_gamma, r.la_gammak1),
                      P_N |-> Append(rec.P_N, r.P_Nk1),
                      P_T |-> Append(rec.P_T, r.P_Tk1)]
           /\ snap' = [q |-> Append(snap.q, heap[r.qk1]),
                       u |-> Append(snap.u, heap[r.uk1]),
                       la_g |-> Append(snap.la_g, heap[r.la_gk1]),
                       la_gamma |-> Append(snap.la_gamma, heap[r.la_gammak1]),
                       P_N |-> Append(snap.P_N, heap[r.P_Nk1]),
                       P_T |-> Append(snap.P_T, heap[r.P_Tk1])]
    /\ pc' = "appended"
    /\ UNCHANGED <<rod, radau, joint, lobatto, solver, method, sys, cic_in, t1, dt, heap, self, loc, cic,
                   hist, result>>

\* line 283: update local variables for accepted time step
Update ==
    /\ pc = "appended"
    /\ LET r == loc.ret
       IN  self' = [self EXCEPT !.tk = r.tk1, !.qk = r.qk1, !.uk = r.uk1,
                                !.la_gk = r.la_gk1, !.la_gammak = r.la_gammak1,
                                !.P_Nk = r.P_Nk1, !.P_Tk = r.P_Tk1]
    /\ loc' = [loc EXCEPT !.k = @ + 1]
    /\ pc' = "loop"
    /\ UNCHANGED <<rod, radau, joint, lobatto, solver, method, sys, cic_in, t1, dt, heap, rec, snap, cic,
                   hist, result>>

\* line 286: np.array(list) copies every sample into the Solution
Return ==
    /\ pc = "loop" /\ loc.k >= Len(self.t) - 1
    /\ LET vals(l) == [i \in 1..Len(l) |-> heap[l[i]]]
       IN  result' = [kind |-> "Solution", t |-> self.t, q |-> vals(rec.q),
                      u |-> vals(rec.u), la_g |-> vals(rec.la_g),
                      la_gamma |-> vals(rec.la_gamma), P_N |-> vals(rec.P_N),
                      P_T |-> vals(rec.P_T)]
    /\ pc' = "returned"
    /\ UNCHANGED <<rod, radau, joint, lobatto, solver, method, sys, cic_in, t1, dt, heap, self, loc, rec,
                   snap, cic, hist>>

Next ==
    \/ MoreauInit
    \/ MoreauSymInit
    \/ LobattoInit
    \/ RadauInit
    \/ SolveBegin
    \/ Step
    \/ Check
    \/ Callback
    \/ AppendSample
    \/ Update
    \/ Return

Spec == Init /\ [][Next]_vars

-----------------------------------------------------------------------------
(* CosseratRod (rods/_base.py).                                             *)
(*                                                                          *)
(* The rod of the model is an axial-torsional rod on a line with linear     *)
(* Lagrange elements: node a carries a centerline coordinate r_a and a      *)
(* non-unit planar quaternion p_a = <<p0, p1>> for the twist about the      *)
(* axis.  q = [r |-> <<r_1..>>, p |-> <<p_1..>>]; an element vector is      *)
(* qe = <<r_a, r_b, p_a, p_b>>, ue = <<v_a, v_b, w_a, w_b>>.  Quotients of  *)
(* floats are kept as fractions [n |-> numerator, d |-> denominator].       *)

nelement == 2
nnodes_element == 2
nnodes == nelement + 1
nu_element == 4
nu_r == nnodes
nu_rod == 2 * nnodes

\* fractions
Frac(n, d) == [n |-> n, d |-> d]
FracSub(x, y) == [n |-> x.n * y.d - y.n * x.d, d |-> x.d * y.d]
FracScale(k, x) == [n |-> k * x.n, d |-> x.d]
FracIsZero(x) == x.n = 0

\* Mesh1D: quadrature weights and shape functions of a rule with nq points,
\* up to a common positive factor (1 point: the midpoint; 2 points: two
\* interior points)
qw(nq, i) == IF nq = 1 THEN 2 ELSE 1
N_shape(nq, i) == IF nq = 1 THEN <<1, 1>> ELSE IF i = 1 THEN <<2, 1>> ELSE <<1, 2>>
N_xi_shape == <<-nelement, nelement>>

\* points xi at which the rod can be evaluated: element and shape values
XiPoints == {[el |-> el, N |-> N] : el \in 1..nelement,
                                    N \in {<<1, 1>>, <<2, 1>>, <<0, 2>>}}
qp(nq, el, i) == [el |-> el, N |-> N_shape(nq, i)]

\* q[self.elDOF[el]]
elDOF(q, el) == <<q.r[el], q.r[el + 1], q.p[el], q.p[el + 1]>>
\* positions in u of the element's velocity coordinates
elDOF_u(el) == <<el, el + 1, nu_r + el, nu_r + el + 1>>

\* norm of cardillo.math.algebra, for a vector along the axis
norm(x) == Abs(x)

\* _eval(qe, xi): (r_OP, A_IK, K_Gamma_bar, K_Kappa_bar).  The tangent
\* r_xi lies on the axis, which the twist leaves fixed: K_Gamma_bar = r_xi.
\* K_Kappa_bar is the twist rate 2 (p0 p1_xi - p1 p0_xi) of the interpolated
\* non-unit quaternion.
_eval(qe, xi) ==
    LET N == xi.N
        r == N[1] * qe[1] + N[2] * qe[2]
        r_xi == N_xi_shape[1] * qe[1] + N_xi_shape[2] * qe[2]
        p0 == N[1] * qe[3][1] + N[2] * qe[4][1]
        p1 == N[1] * qe[3][2] + N[2] * qe[4][2]
        p0_xi == N_xi_shape[1] * qe[3][1] + N_xi_shape[2] * qe[4][1]
        p1_xi == N_xi_shape[1] * qe[3][2] + N_xi_shape[2] * qe[4][2]
    IN  [r_OP |-> r, A_IK |-> <<p0, p1>>, K_Gamma_bar |-> r_xi,
         K_Kappa_bar |-> 2 * (p0 * p1_xi - p1 * p0_xi)]

\* what set_reference_strains stores for one quadrature point, were the
\* strains cached without the division by J
ReferenceStrains_NotScaled(Qe, xi) ==
    LET e == _eval(Qe, xi)
    IN  [J |-> norm(e.K_Gamma_bar), K_Gamma0 |-> Frac(e.K_Gamma_bar, 1),
         K_Kappa0 |-> Frac(e.K_Kappa_bar, 1)]

\* set_reference_strains, body of the loop over quadrature points
ReferenceStrains(Qe, xi) ==
    LET e == _eval(Qe, xi)
        J == norm(e.K_Gamma_bar)
    IN  [J |-> J, K_Gamma0 |-> Frac(e.K_Gamma_bar, J),
         K_Kappa0 |-> Frac(e.K_Kappa_bar, J)]

\* set_reference_strains(Q): the fields Q, J, J_dyn, K_Gamma0, K_Kappa0
set_reference_strains(Q, nq, nq_dyn) ==
    [Q |-> Q,
     ref |-> [el \in 1..nelement |-> [i \in 1..nq |->
                 ReferenceStrains(elDOF(Q, el), qp(nq, el, i))]],
     J_dyn |-> [el \in 1..nelement |-> [i \in 1..nq_dyn |->
                 norm(_eval(elDOF(Q, el), qp(nq_dyn, el, i)).K_Gamma_bar)]]]

\* material model: linear elastic law in the strain differences
K_n(K_Gamma, K_Gamma0, K_Kappa, K_Kappa0) == FracScale(3, FracSub(K_Gamma, K_Gamma0))
K_m(K_Gamma, K_Gamma0, K_Kappa, K_Kappa0) == FracScale(2, FracSub(K_Kappa, K_Kappa0))

\* eval_strains(t, q, la_c, xi)
eval_strains(Q, q, xi) ==
    LET Qe == elDOF(Q, xi.el)
        qe == elDOF(q, xi.el)
        e0 == _eval(Qe, xi)
        J == norm(e0.K_Gamma_bar)
        e == _eval(qe, xi)
    IN  <<FracSub(Frac(e.K_Gamma_bar, J), Frac(e0.K_Gamma_bar, J)),
          FracSub(Frac(e.K_Kappa_bar, J), Frac(e0.K_Kappa_bar, J))>>

\* f_pot_el, quantities of quadrature point i: the strains handed to the
\* material model and the stress resultants it returns
QuadraturePoint(ref, nq, qe, el, i) ==
    LET c == ref[el][i]
        e == _eval(qe, qp(nq, el, i))
        K_Gamma == Frac(e.K_Gamma_bar, c.J)
        K_Kappa == Frac(e.K_Kappa_bar, c.J)
    IN  [K_Gamma |-> K_Gamma, K_Kappa |-> K_Kappa,
         K_n |-> K_n(K_Gamma, c.K_Gamma0, K_Kappa, c.K_Kappa0),
         K_m |-> K_m(K_Gamma, c.K_Gamma0, K_Kappa, c.K_Kappa0)]

\* f_pot_el(qe, el).  On the axis A_IK @ K_n = K_n and the cross products of
\* the last term vanish (their factors are parallel).
RECURSIVE f_pot_el_sum(_, _, _, _, _, _)
f_pot_el_sum(ref, nq, qe, el, i, f) ==
    IF i > nq THEN f
    ELSE LET P == QuadraturePoint(ref, nq, qe, el, i)
             w == qw(nq, i)
             N == N_xi_shape
         IN  f_pot_el_sum(ref, nq, qe, el, i + 1,
               <<FracSub(f[1], FracScale(N[1] * w, P.K_n)),
                 FracSub(f[2], FracScale(N[2] * w, P.K_n)),
                 FracSub(f[3], FracScale(N[1] * w, P.K_m)),
                 FracSub(f[4], FracScale(N[2] * w, P.K_m))>>)

f_pot_el(ref, nq, qe, el) ==
    f_pot_el_sum(ref, nq, qe, el, 1,
                 <<Frac(0, 1), Frac(0, 1), Frac(0, 1), Frac(0, 1)>>)

\* M_el: the factor N[node_a] * N[node_b] of one quadrature point
M_el_entry(Na, Nb) == Na * Nb

\* M_el(el): nu_element x nu_element, rows and columns <<v_a, v_b, w_a, w_b>>
RECURSIVE M_el_sum(_, _, _, _, _, _)
M_el_sum(J_dyn, nq_dyn, inertias, el, i, M) ==
    IF i > nq_dyn THEN M
    ELSE LET N == N_shape(nq_dyn, i)
             M_el_r_r == inertias.A_rho0 * J_dyn[el][i] * qw(nq_dyn, i)
             M_el_p_p == inertias.K_I_rho0 * J_dyn[el][i] * qw(nq_dyn, i)
             add(a, b) == IF a <= 2 /\ b <= 2
                          THEN M_el_r_r * M_el_entry(N[a], N[b])
                          ELSE IF a > 2 /\ b > 2
                          THEN M_el_p_p * M_el_entry(N[a - 2], N[b - 2])
                          ELSE 0
         IN  M_el_sum(J_dyn, nq_dyn, inertias, el, i + 1,
                      [a \in 1..nu_element |-> [b \in 1..nu_element |->
                          M[a][b] + add(a, b)]])

M_el(J_dyn, nq_dyn, inertias, el) ==
    M_el_sum(J_dyn, nq_dyn, inertias, el, 1,
             [a \in 1..nu_element |-> [b \in 1..nu_element |-> 0]])

\* _M_coo: self.__M[elDOF_u, elDOF_u] = self.M_el(el) for every element; the
\* triplets of equal position add up
RECURSIVE _M_coo_sum(_, _, _, _, _)
_M_coo_sum(J_dyn, nq_dyn, inertias, el, M) ==
    IF el > nelement THEN M
    ELSE LET Me == M_el(J_dyn, nq_dyn, inertias, el)
             dof == elDOF_u(el)
             loc_(k) == CHOOSE a \in 1..nu_element : dof[a] = k
             in(k) == \E a \in 1..nu_element : dof[a] = k
         IN  _M_coo_sum(J_dyn, nq_dyn, inertias, el + 1,
                 [k \in 1..nu_rod |-> [l \in 1..nu_rod |->
                     M[k][l] + IF in(k) /\ in(l) THEN Me[loc_(k)][loc_(l)]
                               ELSE 0]])

_M_coo(J_dyn, nq_dyn, inertias) ==
    _M_coo_sum(J_dyn, nq_dyn, inertias, 1,
               [k \in 1..nu_rod |-> [l \in 1..nu_rod |-> 0]])

\* the derivative routines with a finite-difference fallback, the class
\* that defines each, and the function each differentiates
DerivativeRoutines ==
    [f_pot_el_q |-> [cls |-> "CosseratRod", of |-> "f_pot_el"],
     r_OP_q     |-> [cls |-> "CosseratRod", of |-> "r_OP"],
     c_q_el     |-> [cls |-> "CosseratRodMixed", of |-> "c_el"],
     Wla_c_q_el |-> [cls |-> "CosseratRodMixed", of |-> "W_c_el @ la_ce"],
     g_q_el     |-> [cls |-> "CosseratRodConstrained", of |-> "g_el"],
     Wla_g_q_el |-> [cls |-> "CosseratRodConstrained", of |-> "W_g_el @ la_ge"]]

\* the classes whose methods an object of class cls has
\* (make_CosseratRodConstrained derives from CosseratRod or CosseratRodMixed)
Bases(cls) ==
    IF cls = "CosseratRod" THEN {"CosseratRod"}
    ELSE IF cls = "CosseratRodMixed" THEN {"CosseratRod", "CosseratRodMixed"}
    ELSE IF cls = "CosseratRodConstrained"
    THEN {"CosseratRod", "CosseratRodConstrained"}
    ELSE {"CosseratRod", "CosseratRodMixed", "CosseratRodConstrained"}

\* a routine that takes the fallback without the call of warnings.warn
derivative_Silent(has_deval, name) ==
    IF ~has_deval
    THEN [warned |-> FALSE, kind |-> "approx_fprime", of |-> DerivativeRoutines[name].of]
    ELSE [warned |-> FALSE, kind |-> "analytic", of |-> name]

\* if not hasattr(self, "_deval"): warnings.warn(...); return approx_fprime(...)
derivative(has_deval, name) ==
    IF ~has_deval
    THEN [warned |-> TRUE, kind |-> "approx_fprime", of |-> DerivativeRoutines[name].of]
    ELSE [warned |-> FALSE, kind |-> "analytic", of |-> name]

\* reference and current configurations: node coordinates and nodal
\* quaternions (straight or stretched, untwisted or twisted)
RodConfigs ==
    {[r |-> r, p |-> p] :
        r \in {<<0, 1, 2>>, <<0, 2, 3>>},
        p \in {<<(<<1, 0>>), (<<1, 0>>), (<<1, 0>>)>>,
               <<(<<1, 0>>), (<<1, 1>>), (<<0, 1>>)>>}}

\* (nquadrature, nquadrature_dyn) of the constructor
RodQuadratures == {<<1, 1>>, <<2, 2>>, <<1, 2>>}

NoCall == [name |-> "none", q |-> <<>>, at |-> 0, ret |-> <<>>, raised |-> "no"]

\* the arguments of CosseratRod.__init__ (and of its subclasses)
RodInitial ==
    {[pc |-> "new", cls |-> cls, nquadrature |-> nn[1],
      nquadrature_dyn |-> nn[2], has_deval |-> d,
      inertias |-> [A_rho0 |-> 1, K_I_rho0 |-> 2],
      Q |-> Q, ref |-> <<>>, J_dyn |-> <<>>, M |-> <<>>, call |-> NoCall,
      fallbacks |-> 0, warnings |-> 0] :
        cls \in {"CosseratRod", "CosseratRodMixed", "CosseratRodConstrained",
                 "CosseratRodMixedConstrained"},
        nn \in RodQuadratures, d \in BOOLEAN, Q \in RodConfigs}

InitRod ==
    /\ rod \in RodInitial
    /\ radau = NoRadau /\ joint = NoJoint /\ lobatto = NoLobatto
    /\ solver = "none" /\ method = "none" /\ sys = DefaultSystem
    /\ cic_in = ConsistentCic /\ t1 = 1 /\ dt = 1 /\ pc = "none"
    /\ heap = DefaultHeap /\ self = NoSelf /\ loc = [k |-> 0, ret |-> NoRet]
    /\ rec = NoLists /\ snap = NoLists
    /\ cic = [calls |-> 0, status |-> "not called", before_steps |-> TRUE]
    /\ hist = [steps |-> 0, callbacks |-> 0, cb_q |-> <<>>, cb_u |-> <<>>]
    /\ result = NoResult

\* CosseratRod.__init__: ends with self.set_reference_strains(self.Q)
RodNew ==
    /\ rod.pc = "new"
    /\ LET c == set_reference_strains(rod.Q, rod.nquadrature, rod.nquadrature_dyn)
       IN  rod' = [rod EXCEPT !.pc = "ready", !.Q = c.Q, !.ref = c.ref,
                              !.J_dyn = c.J_dyn]
    /\ UNCHANGED <<radau, joint, lobatto, solverVars>>

\* set_reference_strains(Q) on an existing rod: the reference is redefined
RodSetReferenceStrains ==
    /\ rod.pc = "ready"
    /\ \E Q \in RodConfigs :
         LET c == set_reference_strains(Q, rod.nquadrature, rod.nquadrature_dyn)
         IN  rod' = [rod EXCEPT !.Q = c.Q, !.ref = c.ref, !.J_dyn = c.J_dyn,
                                !.call = NoCall]
    /\ UNCHANGED <<radau, joint, lobatto, solverVars>>

\* assembler_callback(): self._M_coo()
RodAssemblerCallback ==
    /\ rod.pc = "ready"
    /\ rod' = [rod EXCEPT !.M = _M_coo(rod.J_dyn, rod.nquadrature_dyn, rod.inertias),
                          !.call = NoCall]
    /\ UNCHANGED <<radau, joint, lobatto, solverVars>>

\* M(t, q): return self.__M
RodM ==
    /\ rod.pc = "ready"
    /\ \E q \in RodConfigs :
         rod' = [rod EXCEPT !.call =
                   IF rod.M = <<>>
                   THEN [NoCall EXCEPT !.name = "M", !.q = q,
                                       !.raised = "AttributeError"]
                   ELSE [NoCall EXCEPT !.name = "M", !.q = q, !.ret = rod.M]]
    /\ UNCHANGED <<radau, joint, lobatto, solverVars>>

\* eval_strains(t, q, la_c, xi)
RodEvalStrains ==
    /\ rod.pc = "ready"
    /\ \E q \in RodConfigs, xi \in XiPoints :
         rod' = [rod EXCEPT !.call =
                   [NoCall EXCEPT !.name = "eval_strains", !.q = q, !.at = xi,
                                  !.ret = eval_strains(rod.Q, q, xi)]]
    /\ UNCHANGED <<radau, joint, lobatto, solverVars>>

\* f_pot_el(q[elDOF[el]], el); the call record keeps the strains handed to
\* the material model at every quadrature point
RodFPotEl ==
    /\ rod.pc = "ready"
    /\ \E q \in RodConfigs, el \in 1..nelement :
         LET qe == elDOF(q, el)
         IN  rod' = [rod EXCEPT !.call =
                   [name |-> "f_pot_el", q |-> q, at |-> el, raised |-> "no",
                    ret |-> f_pot_el(rod.ref, rod.nquadrature, qe, el),
                    strains |-> [i \in 1..rod.nquadrature |->
                       QuadraturePoint(rod.ref, rod.nquadrature, qe, el, i)]]]
    /\ UNCHANGED <<radau, joint, lobatto, solverVars>>

\* one call of a derivative routine the class of the rod has
RodDerivative ==
    /\ rod.pc = "ready"
    /\ rod.fallbacks < MaxRodCalls
    /\ \E name \in DOMAIN DerivativeRoutines :
         /\ DerivativeRoutines[name].cls \in Bases(rod.cls)
         /\ LET d == derivative(rod.has_deval, name)
            IN  rod' = [rod EXCEPT
                  !.call = [NoCall EXCEPT !.name = name, !.ret = d],
                  !.fallbacks = IF d.kind = "approx_fprime" THEN @ + 1 ELSE @,
                  !.warnings = IF d.warned THEN @ + 1 ELSE @]
    /\ UNCHANGED <<radau, joint, lobatto, solverVars>>

NextRod ==
    \/ RodNew
    \/ RodSetReferenceStrains
    \/ RodAssemblerCallback
    \/ RodM
    \/ RodEvalStrains
    \/ RodFPotEl
    \/ RodDerivative

SpecRod == InitRod /\ [][NextRod]_vars

-----------------------------------------------------------------------------
(* Spherical_joint and Spherical_joint2D                                    *)
(* (model/bilateral_constraints/implicit/spherical_joint.py).               *)
(*                                                                          *)
(* The two subsystems are points with three coordinates each; subsystem s   *)
(* answers r_OP = A_s q_s, v_P = A_s u_s, a_P = A_s u_dot_s, r_OP_q = J_P = *)
(* A_s with a constant matrix A_s (A_2 is not symmetric, so a transpose is  *)
(* visible).  Neither has A_IK, so K_r_SP is zero.  A matrix is a sequence  *)
(* of rows.  The attributes of the joint object are kept by name, private   *)
(* names in the mangled form Python stores them in.                         *)

SubsystemA == <<
    <<<<1, 0, 0>>, <<0, 1, 0>>, <<0, 0, 1>>>>,
    <<<<1, 1, 0>>, <<0, 1, 0>>, <<0, 1, 1>>>> >>

MatVec(A, x) ==
    [i \in 1..Len(A) |-> A[i][1] * x[1] + A[i][2] * x[2] + A[i][3] * x[3]]
Transpose(A) == [j \in 1..Len(A[1]) |-> [i \in 1..Len(A) |-> A[i][j]]]
MatNeg(A) == [i \in 1..Len(A) |-> [j \in 1..Len(A[i]) |-> -A[i][j]]]
VecSub(x, y) == [i \in 1..Len(x) |-> x[i] - y[i]]
\* x[:k] of a vector, or the first k rows of a matrix
FirstRows(x, k) == SubSeq(x, 1, k)
\* np.hstack([A, B])
hstack(A, B) == [i \in 1..Len(A) |-> A[i] \o B[i]]

\* a private name __x used inside class cls is stored as _cls__x
Mangle(cls, name) == "_" \o cls \o name

\* the attributes assembler_callback (defined in Spherical_joint only) binds
assembler_callback ==
    [nq1 |-> 3, nq2 |-> 3, nu1 |-> 3, nu2 |-> 3,
     _Spherical_joint__nq |-> 6, _Spherical_joint__nu |-> 6,
     r_OP1 |-> 1, r_OP2 |-> 2]

JointRaise(e) == [raised |-> e, ret |-> <<>>]
JointReturn(x) == [raised |-> "no", ret |-> x]

r_OP1(q) == MatVec(SubsystemA[1], SubSeq(q, 1, 3))
r_OP2(q) == MatVec(SubsystemA[2], SubSeq(q, 4, 6))

\* Spherical_joint.g, .g_dot, .g_ddot: r_OP2 - r_OP1 and its derivatives
Spherical_joint_g(attrs, q) ==
    IF "r_OP1" \notin DOMAIN attrs THEN JointRaise("AttributeError")
    ELSE JointReturn(VecSub(r_OP2(q), r_OP1(q)))

\* Spherical_joint.g_q_dense: np.hstack([-r_OP1_q, r_OP2_q])
Spherical_joint_g_q_dense(attrs, q) ==
    IF "r_OP1" \notin DOMAIN attrs THEN JointRaise("AttributeError")
    ELSE JointReturn(hstack(MatNeg(SubsystemA[1]), SubsystemA[2]))

\* Spherical_joint.W_g_dense: np.zeros((self.__nu, self.nla_g)) filled with
\* -J_P1.T and J_P2.T
Spherical_joint_W_g_dense(attrs, q) ==
    IF "r_OP1" \notin DOMAIN attrs THEN JointRaise("AttributeError")
    ELSE IF Mangle("Spherical_joint", "__nu") \notin DOMAIN attrs
    THEN JointRaise("AttributeError")
    ELSE JointReturn(MatNeg(Transpose(SubsystemA[1])) \o Transpose(SubsystemA[2]))

\* Spherical_joint.g_dot_u: the matrix handed to coo.extend
Spherical_joint_g_dot_u(attrs, q) ==
    LET W == Spherical_joint_W_g_dense(attrs, q)
    IN  IF W.raised # "no" THEN W ELSE JointReturn(Transpose(W.ret))

\* Spherical_joint2D.g, .g_dot, .g_ddot, .g_q_dense: super()...[:2]
Spherical_joint2D_g(attrs, q) ==
    LET s == Spherical_joint_g(attrs, q)
    IN  IF s.raised # "no" THEN s ELSE JointReturn(FirstRows(s.ret, 2))

Spherical_joint2D_g_q_dense(attrs, q) ==
    LET s == Spherical_joint_g_q_dense(attrs, q)
    IN  IF s.raised # "no" THEN s ELSE JointReturn(FirstRows(s.ret, 2))

\* Spherical_joint2D.W_g_dense: self.__nu is read inside Spherical_joint2D
Spherical_joint2D_W_g_dense(attrs, q) ==
    IF "r_OP1" \notin DOMAIN attrs THEN JointRaise("AttributeError")
    ELSE IF Mangle("Spherical_joint2D", "__nu") \notin DOMAIN attrs
    THEN JointRaise("AttributeError")
    ELSE JointReturn(MatNeg(Transpose(FirstRows(SubsystemA[1], 2)))
                        \o Transpose(FirstRows(SubsystemA[2], 2)))

\* Spherical_joint2D.g_dot_u: self.W_g_dense(t, q).T[:2]
Spherical_joint2D_g_dot_u(attrs, q) ==
    LET W == Spherical_joint2D_W_g_dense(attrs, q)
    IN  IF W.raised # "no" THEN W
        ELSE JointReturn(FirstRows(Transpose(W.ret), 2))

\* method name of class cls applied to the argument x the method reads
\* (q for g, u for g_dot, u_dot for g_ddot: the points are linear in each)
JointMethod(cls, name, attrs, x) ==
    IF cls = "Spherical_joint"
    THEN CASE name \in {"g", "g_dot", "g_ddot"} -> Spherical_joint_g(attrs, x)
           [] name = "g_q_dense" -> Spherical_joint_g_q_dense(attrs, x)
           [] name = "W_g_dense" -> Spherical_joint_W_g_dense(attrs, x)
           [] name = "g_dot_u" -> Spherical_joint_g_dot_u(attrs, x)
    ELSE CASE name \in {"g", "g_dot", "g_ddot"} -> Spherical_joint2D_g(attrs, x)
           [] name = "g_q_dense" -> Spherical_joint2D_g_q_dense(attrs, x)
           [] name = "W_g_dense" -> Spherical_joint2D_W_g_dense(attrs, x)
           [] name = "g_dot_u" -> Spherical_joint2D_g_dot_u(attrs, x)

JointMethods == {"g", "g_dot", "g_ddot", "g_q_dense", "W_g_dense", "g_dot_u"}

\* coordinates (or velocities, accelerations) of the two points
JointArgs ==
    {<<0, 0, 0, 0, 0, 0>>, <<1, 2, 3, 1, 2, 3>>, <<1, 0, 2, 0, 1, 1>>,
     <<0, 1, 0, 2, 0, 1>>, <<2, 1, 1, 1, 1, 0>>}

\* the last call made on the joint; assembled tells whether it was made
\* after assembler_callback
NoJointCall ==
    [name |-> "none", x |-> <<>>, assembled |-> FALSE, raised |-> "no",
     ret |-> <<>>]

InitJoint ==
    /\ joint \in {[pc |-> "new", cls |-> c, nla_g |-> 0, attrs |-> <<>>,
                   call |-> NoJointCall] :
                     c \in {"Spherical_joint", "Spherical_joint2D"}}
    /\ rod = NoRod /\ radau = NoRadau /\ lobatto = NoLobatto
    /\ solver = "none" /\ method = "none" /\ sys = DefaultSystem
    /\ cic_in = ConsistentCic /\ t1 = 1 /\ dt = 1 /\ pc = "none"
    /\ heap = DefaultHeap /\ self = NoSelf /\ loc = [k |-> 0, ret |-> NoRet]
    /\ rec = NoLists /\ snap = NoLists
    /\ cic = [calls |-> 0, status |-> "not called", before_steps |-> TRUE]
    /\ hist = [steps |-> 0, callbacks |-> 0, cb_q |-> <<>>, cb_u |-> <<>>]
    /\ result = NoResult

\* Spherical_joint.__init__ / Spherical_joint2D.__init__
JointNew ==
    /\ joint.pc = "new"
    /\ joint' = [joint EXCEPT !.pc = "constructed",
                   !.nla_g = IF joint.cls = "Spherical_joint2D" THEN 2 ELSE 3]
    /\ UNCHANGED <<rod, radau, lobatto, solverVars>>

\* assembler_callback, inherited unchanged by Spherical_joint2D
JointAssemblerCallback ==
    /\ joint.pc = "constructed"
    /\ joint' = [joint EXCEPT !.pc = "assembled", !.attrs = assembler_callback]
    /\ UNCHANGED <<rod, radau, lobatto, solverVars>>

\* one call of a method of the joint
JointCall ==
    /\ joint.pc \in {"constructed", "assembled"}
    /\ \E name \in JointMethods, x \in JointArgs :
         LET r == JointMethod(joint.cls, name, joint.attrs, x)
         IN  joint' = [joint EXCEPT !.call =
                 [name |-> name, x |-> x, assembled |-> joint.pc = "assembled",
                  raised |-> r.raised, ret |-> r.ret]]
    /\ UNCHANGED <<rod, radau, lobatto, solverVars>>

NextJoint ==
    \/ JointNew
    \/ JointAssemblerCallback
    \/ JointCall

SpecJoint == InitJoint /\ [][NextJoint]_vars

-----------------------------------------------------------------------------
(* Radau and RadauIIa (solver/radau.py).                                    *)
(*                                                                          *)
(* Step sizes, times and error components are exact fractions in lowest     *)
(* terms; Frac(1, 0) is the float inf.  The square root of the error norm   *)
(* is never taken: the model carries error_norm^2 (err2), which compares    *)
(* with 1 as error_norm does.  What the right-hand side decides (Newton     *)
(* convergence, n_iter, rate, the raw error vector, the fourth roots in     *)
(* predict_factor) is an input of each attempt.                             *)

RECURSIVE GCD(_, _)
GCD(a, b) == IF b = 0 THEN a ELSE GCD(b, a % b)
Reduce(x) ==
    LET g == GCD(Abs(x.n), x.d)
    IN  IF g = 0 THEN x ELSE [n |-> x.n \div g, d |-> x.d \div g]
FracMul(x, y) ==
    LET a == Reduce([n |-> x.n, d |-> y.d])
        b == Reduce([n |-> y.n, d |-> x.d])
    IN  Reduce([n |-> a.n * b.n, d |-> a.d * b.d])
FracDiv(x, y) == FracMul(x, [n |-> y.d, d |-> y.n])
FracAdd(x, y) ==
    LET l == (x.d \div GCD(x.d, y.d)) * y.d
    IN  Reduce([n |-> x.n * (l \div x.d) + y.n * (l \div y.d), d |-> l])
FracLess(x, y) == x.n * y.d < y.n * x.d
FracMin(x, y) == IF FracLess(y, x) THEN y ELSE x
FracMax(x, y) == IF FracLess(x, y) THEN y ELSE x
RECURSIVE FracPow(_, _)
FracPow(x, k) == IF k = 0 THEN Frac(1, 1) ELSE FracMul(x, FracPow(x, k - 1))
Inf == Frac(1, 0)

NEWTON_MAXITER == 6
MIN_FACTOR == Frac(1, 5)
MAX_FACTOR == Frac(10, 1)

\* Radau._validate_mass_matrix: the algebraic variables are the all-zero
\* rows of the mass matrix; without a mass matrix index_algebraic_vars is
\* None (has_alg = FALSE), with one it is an array, possibly empty
_validate_mass_matrix(mass_matrix) ==
    IF ~mass_matrix.given
    THEN [has_alg |-> FALSE, nvars_algebraic |-> 0]
    ELSE [has_alg |-> TRUE, nvars_algebraic |-> Cardinality(mass_matrix.zero_rows)]

\* Radau._validate_index_array with the shift by one left out
_validate_index_array_NoShift(index_array, n, nvars_algebraic) ==
    IF ~index_array.given
    THEN IF nvars_algebraic = 0
         THEN [raised |-> "no", index_array |-> [i \in 1..n |-> 0]]
         ELSE [raised |-> "AssertionError", index_array |-> <<>>]
    ELSE IF Len(index_array.arr) = n
         THEN [raised |-> "no", index_array |-> index_array.arr]
         ELSE [raised |-> "AssertionError", index_array |-> <<>>]

\* Radau._validate_index_array: np.maximum(0, index_array - 1)
_validate_index_array(index_array, n, nvars_algebraic) ==
    IF ~index_array.given
    THEN IF nvars_algebraic = 0
         THEN [raised |-> "no", index_array |-> [i \in 1..n |-> 0]]
         ELSE [raised |-> "AssertionError", index_array |-> <<>>]
    ELSE IF Len(index_array.arr) = n
         THEN [raised |-> "no", index_array |->
                 [i \in 1..n |-> Max2(0, index_array.arr[i] - 1)]]
         ELSE [raised |-> "AssertionError", index_array |-> <<>>]

\* safety = 0.9 * (2 * NEWTON_MAXITER + 1) / (2 * NEWTON_MAXITER + n_iter)
safety(n_iter) ==
    Reduce([n |-> 9 * (2 * NEWTON_MAXITER + 1),
            d |-> 10 * (2 * NEWTON_MAXITER + n_iter)])

\* predict_factor: min(1, multiplier) * error_norm ** -0.25, where
\* multiplier = h_abs / h_abs_old * (error_norm_old / error_norm) ** 0.25.
\* m stands for the value of that product and root for error_norm ** -0.25.
predict_factor(has_old, err2, m, root) ==
    LET multiplier == IF ~has_old \/ err2.n = 0 THEN Frac(1, 1) ELSE m
    IN  FracMul(FracMin(Frac(1, 1), multiplier), root)

\* error *= h ** self.index_array
ScaleError(error, hk, index_array) ==
    [i \in 1..Len(error) |->
        FracMul(Frac(error[i], 1), FracPow(hk, index_array[i]))]

RECURSIVE SumSquares(_, _, _)
SumSquares(x, scale, i) ==
    IF i = 0 THEN Frac(0, 1)
    ELSE LET c == FracMul(x[i], Frac(1, scale))
         IN  FracAdd(FracMul(c, c), SumSquares(x, scale, i - 1))

\* the error estimate of one attempt: the vector after scaling and the
\* square of its norm.  With index_algebraic_vars the norm is
\* np.linalg.norm(error / scale) / (n - nvars_algebraic) ** 0.5, without it
\* scipy's norm(x) = np.linalg.norm(x) / x.size ** 0.5
error_estimate(raw, scale, hk, has_alg, index_array, nvars_algebraic) ==
    LET n == Len(raw)
        error == IF has_alg THEN ScaleError(raw, hk, index_array)
                 ELSE [i \in 1..n |-> Frac(raw[i], 1)]
        D == IF has_alg THEN n - nvars_algebraic ELSE n
    IN  [error |-> error,
         err2 |-> FracMul(SumSquares(error, scale, n), Frac(1, D))]

\* the rejected-step update without the lower bound MIN_FACTOR
RejectFactor_NoFloor(s, factor) == FracMul(s, factor)

\* h_abs *= max(MIN_FACTOR, safety * factor)
RejectFactor(s, factor) == FracMax(MIN_FACTOR, FracMul(s, factor))

\* factor = min(MAX_FACTOR, safety * factor);
\* if not recompute_jac and factor < 1.2: factor = 1
AcceptFactor(s, factor, recompute_jac) ==
    LET f == FracMin(MAX_FACTOR, FracMul(s, factor))
    IN  IF ~recompute_jac /\ FracLess(f, Frac(6, 5)) THEN Frac(1, 1) ELSE f

\* ... else: LU_real = None; LU_complex = None
KeepLU(s, factor, recompute_jac) ==
    ~recompute_jac /\ FracLess(FracMin(MAX_FACTOR, FracMul(s, factor)), Frac(6, 5))

\* min_step = 10 * ulp(t), t_bound, and the default max_step = np.inf
min_step == Frac(1, MinStepDen)
t_bound(direction) == Frac(direction * TBound, 1)
max_step == Inf

\* inputs of an attempt
NIters == {1, NEWTON_MAXITER}
RawErrors == {<<0, 0, 0>>, <<1, 3, 3>>, <<3, 0, 8>>}
Scales == {1, 2}
Multipliers == {Frac(1, 2), Frac(2, 1)}
RejectTargets == {Frac(1, 8), Frac(1, 2)}
AcceptTargets == {Frac(3, 4), Frac(1, 1), Frac(2, 1), Frac(16, 1)}

\* the values error_norm ** -0.25 may take in the model.  The root is exact
\* for error_norm 0 (inf) and 1; otherwise it is irrational in general, and
\* the model draws a value on the same side of 1 as the real one, chosen so
\* that safety * root is a short fraction.
Roots(s, err2) ==
    IF err2.n = 0 THEN {Inf}
    ELSE IF err2 = Frac(1, 1) THEN {Frac(1, 1)}
    ELSE IF FracLess(Frac(1, 1), err2)
    THEN {r \in {FracDiv(f, s) : f \in RejectTargets} : FracLess(r, Frac(1, 1))}
    ELSE {r \in {FracDiv(f, s) : f \in AcceptTargets} : FracLess(Frac(1, 1), r)}

\* arguments of Radau.__init__: three variables, mass matrix (None or its
\* set of all-zero rows), index_array (None or an array), jac callable or a
\* constant matrix
RadauConfigs ==
    {[mass_matrix |-> [given |-> FALSE, zero_rows |-> {}],
      index_array |-> [given |-> FALSE, arr |-> <<>>], jac_callable |-> TRUE],
     [mass_matrix |-> [given |-> TRUE, zero_rows |-> {3}],
      index_array |-> [given |-> TRUE, arr |-> <<0, 0, 3>>],
      jac_callable |-> TRUE],
     [mass_matrix |-> [given |-> TRUE, zero_rows |-> {2, 3}],
      index_array |-> [given |-> TRUE, arr |-> <<0, 2, 3>>],
      jac_callable |-> TRUE],
     [mass_matrix |-> [given |-> TRUE, zero_rows |-> {2, 3}],
      index_array |-> [given |-> TRUE, arr |-> <<0, 2, 3>>],
      jac_callable |-> FALSE],
     [mass_matrix |-> [given |-> TRUE, zero_rows |-> {3}],
      index_array |-> [given |-> FALSE, arr |-> <<>>], jac_callable |-> TRUE],
     [mass_matrix |-> [given |-> TRUE, zero_rows |-> {3}],
      index_array |-> [given |-> TRUE, arr |-> <<0, 2>>],
      jac_callable |-> TRUE]}

NoAttempt ==
    [kind |-> "none", h |-> Frac(0, 1), h_next |-> Frac(0, 1), njac |-> 0,
     h_try |-> Frac(0, 1), t_old |-> Frac(0, 1), t_new |-> Frac(0, 1),
     n_iter |-> 0, raw |-> <<>>, scale |-> 1, error |-> <<>>,
     err2 |-> Frac(0, 1), stabilised |-> FALSE, factor |-> Frac(1, 1),
     recompute_jac |-> FALSE]

NoLoop ==
    [h_abs |-> Frac(0, 1), has_old |-> FALSE, current_jac |-> TRUE,
     LU |-> FALSE, rejected |-> FALSE, fails |-> 0]

\* a Radau solver before __init__ has run; t0 = 0 and t_bound lies on
\* either side of it (OdeSolver: direction = sign(t_bound - t0))
RadauInitial ==
    {r \in
     {[mode |-> "Radau", pc |-> "new", cfg |-> c, n |-> 3, direction |-> dir,
       has_alg |-> FALSE, nvars_algebraic |-> 0, index_array |-> <<>>,
      t |-> Frac(0, 1), h_abs |-> h0, has_old |-> FALSE,
      current_jac |-> TRUE, LU |-> FALSE, loop |-> NoLoop, att |-> NoAttempt,
      steps |-> 0, raised |-> "no"] :
        c \in RadauConfigs, h0 \in {Frac(1, 1), Frac(1, 2 * MinStepDen)},
        dir \in {1, -1}} :
        r.direction = 1 \/ ~r.cfg.mass_matrix.given}

\* Radau.__init__: first_step -> h_abs, _validate_mass_matrix,
\* _validate_index_array
RadauNew ==
    /\ radau.mode = "Radau" /\ radau.pc = "new"
    /\ LET mm == _validate_mass_matrix(radau.cfg.mass_matrix)
           ia == _validate_index_array(radau.cfg.index_array, radau.n,
                                       mm.nvars_algebraic)
       IN  radau' = IF ia.raised # "no"
                    THEN [radau EXCEPT !.pc = "raised", !.raised = ia.raised]
                    ELSE [radau EXCEPT !.pc = "running",
                            !.has_alg = mm.has_alg,
                            !.nvars_algebraic = mm.nvars_algebraic,
                            !.index_array = ia.index_array]
    /\ UNCHANGED <<rod, joint, lobatto, solverVars>>

\* OdeSolver.step up to the loop of _step_impl: h_abs is clipped to
\* [min_step, max_step]; a clipped h_abs forgets h_abs_old, error_norm_old
RadauStepBegin ==
    /\ radau.mode = "Radau" /\ radau.pc = "running"
    /\ radau.steps < MaxSteps
    /\ LET clipped == FracLess(max_step, radau.h_abs)
                         \/ FracLess(radau.h_abs, min_step)
           h0 == IF FracLess(max_step, radau.h_abs) THEN max_step
                 ELSE IF FracLess(radau.h_abs, min_step) THEN min_step
                 ELSE radau.h_abs
       IN  radau' = [radau EXCEPT !.pc = "loop", !.att = NoAttempt,
                       !.loop = [h_abs |-> h0,
                                 has_old |-> ~clipped /\ radau.has_old,
                                 current_jac |-> radau.current_jac,
                                 LU |-> radau.LU,
                                 rejected |-> FALSE, fails |-> 0]]
    /\ UNCHANGED <<rod, joint, lobatto, solverVars>>

\* one pass of `while not step_accepted` that ends in return False,
\* self.TOO_SMALL_STEP; OdeSolver.step sets status = 'failed'
RadauTooSmall ==
    /\ radau.mode = "Radau" /\ radau.pc = "loop"
    /\ FracLess(radau.loop.h_abs, min_step)
    /\ radau' = [radau EXCEPT !.pc = "failed",
                   !.att = [NoAttempt EXCEPT !.kind = "TOO_SMALL_STEP",
                              !.h = radau.loop.h_abs,
                              !.h_next = radau.loop.h_abs]]
    /\ UNCHANGED <<rod, joint, lobatto, solverVars>>

\* an attempt that ends at t + h whatever t_bound is
AttemptT_NoCut(direction, t, h_abs) ==
    FracAdd(t, [n |-> direction * h_abs.n, d |-> h_abs.d])

\* lines 538-542: h = h_abs * self.direction; t_new = t + h;
\* if self.direction * (t_new - self.t_bound) > 0: t_new = self.t_bound
AttemptT(direction, t, h_abs) ==
    LET t_new == FracAdd(t, [n |-> direction * h_abs.n, d |-> h_abs.d])
        tb    == t_bound(direction)
    IN  IF (direction > 0 /\ FracLess(tb, t_new))
           \/ (direction < 0 /\ FracLess(t_new, tb))
        THEN tb ELSE t_new

\* lines 544-545: h = t_new - t; h_abs = np.abs(h)
AttemptH(direction, t, h_abs) ==
    LET hk == FracAdd(AttemptT(direction, t, h_abs), [n |-> -t.n, d |-> t.d])
    IN  [n |-> Abs(hk.n), d |-> hk.d]

\* one pass of `while not step_accepted` in which the Newton iteration did
\* not converge: conv1 is the first solve_collocation_system, conv2 the one
\* after J = self.jac(t, y, f), made only if the Jacobian was not current
RadauNewtonFailed ==
    /\ radau.mode = "Radau" /\ radau.pc = "loop"
    /\ ~FracLess(radau.loop.h_abs, min_step)
    /\ LET L == radau.loop
           hk == AttemptH(radau.direction, radau.t, L.h_abs)
           njac == IF L.current_jac THEN 0 ELSE 1
       IN  radau' = [radau EXCEPT
             !.loop = [L EXCEPT !.h_abs = FracMul(hk, Frac(1, 2)),
                                !.current_jac = TRUE, !.LU = FALSE,
                                !.fails = @ + 1],
             !.att = [NoAttempt EXCEPT !.kind = "newton_failed", !.h = hk,
                        !.h_try = L.h_abs, !.t_old = radau.t,
                        !.t_new = AttemptT(radau.direction, radau.t, L.h_abs),
                        !.h_next = FracMul(hk, Frac(1, 2)), !.njac = njac]]
    /\ UNCHANGED <<rod, joint, lobatto, solverVars>>

\* the rest of a pass whose Newton iteration converged, from the error
\* estimate est on: rejection (error_norm > 1) or acceptance with the
\* assignments to self that end _step_impl
Converged(r, hk, recomputed, n_iter, rate_high, raw, scale, est, stab, m, root) ==
    LET L == r.loop
        s == safety(n_iter)
        factor == predict_factor(L.has_old, est.err2, m, root)
        t_new == AttemptT(r.direction, r.t, L.h_abs)
        a == [NoAttempt EXCEPT !.h = hk, !.h_try = L.h_abs, !.t_old = r.t,
                !.t_new = t_new,
                !.njac = IF recomputed THEN 1 ELSE 0, !.n_iter = n_iter,
                !.raw = raw, !.scale = scale, !.error = est.error,
                !.err2 = est.err2, !.stabilised = stab]
    IN  IF FracLess(Frac(1, 1), est.err2)
        THEN LET f == RejectFactor(s, factor)
             IN  [r EXCEPT
                    !.loop = [L EXCEPT !.h_abs = FracMul(hk, f),
                                !.current_jac = @ \/ recomputed,
                                !.LU = FALSE, !.rejected = TRUE,
                                !.fails = @ + 1],
                    !.att = [a EXCEPT !.kind = "rejected", !.factor = f,
                               !.h_next = FracMul(hk, f)]]
        ELSE LET recompute_jac == r.cfg.jac_callable /\ n_iter > 2 /\ rate_high
                 f == AcceptFactor(s, factor, recompute_jac)
             IN  [r EXCEPT
                    !.pc = IF (r.direction > 0
                                 /\ ~FracLess(t_new, t_bound(r.direction)))
                              \/ (r.direction < 0
                                    /\ ~FracLess(t_bound(r.direction), t_new))
                           THEN "finished" ELSE "running",
                    !.t = t_new,
                    !.h_abs = FracMul(hk, f),
                    !.has_old = TRUE,
                    !.current_jac = IF recompute_jac THEN TRUE
                                    ELSE IF r.cfg.jac_callable THEN FALSE
                                    ELSE L.current_jac \/ recomputed,
                    !.LU = KeepLU(s, factor, recompute_jac),
                    !.steps = @ + 1,
                    !.loop = [L EXCEPT !.h_abs = hk,
                                !.current_jac = @ \/ recomputed],
                    !.att = [a EXCEPT !.kind = "accepted", !.factor = f,
                               !.recompute_jac = recompute_jac,
                               !.h_next = FracMul(hk, f)]]

\* one pass of `while not step_accepted` in which the Newton iteration
\* converged (at once, or after one recomputation of a Jacobian that was
\* not current): error estimate, then rejection or acceptance
RadauConverged ==
    /\ radau.mode = "Radau" /\ radau.pc = "loop"
    /\ ~FracLess(radau.loop.h_abs, min_step)
    /\ \E recomputed \in IF radau.loop.current_jac THEN {FALSE} ELSE BOOLEAN,
          raw \in RawErrors, scale \in Scales,
          hk \in {AttemptH(radau.direction, radau.t, radau.loop.h_abs)} :
       \E est1 \in {error_estimate(raw, scale, hk, radau.has_alg,
                                   radau.index_array, radau.nvars_algebraic)} :
       \E stab \in {radau.loop.rejected /\ FracLess(Frac(1, 1), est1.err2)} :
       \E raw2 \in IF stab THEN RawErrors ELSE {raw} :
       \E est \in {IF stab
                   THEN error_estimate(raw2, scale, hk, radau.has_alg,
                                       radau.index_array,
                                       radau.nvars_algebraic)
                   ELSE est1} :
       \E n_iter \in NIters :
       \E root \in Roots(safety(n_iter), est.err2),
          m \in IF radau.loop.has_old /\ est.err2.n # 0 THEN Multipliers
                ELSE {Frac(1, 1)},
          rate_high \in IF ~FracLess(Frac(1, 1), est.err2)
                             /\ radau.cfg.jac_callable /\ n_iter > 2
                        THEN BOOLEAN ELSE {FALSE} :
         radau' = Converged(radau, hk, recomputed, n_iter, rate_high, raw2,
                            scale, est, stab, m, root)
    /\ UNCHANGED <<rod, joint, lobatto, solverVars>>

\* RadauIIa: the values of dae_index tried ("2", "3" stand for the
\* integers 2, 3) and the dimensions of the system
DaeIndexInputs == {"1", "2", "3", "4", "GGL", "ggl"}
RadauIIaDims ==
    {[nq |-> 2, nu |-> 2, nla_g |-> g, nla_gamma |-> gm, nla_S |-> S] :
        g \in 1..2, gm \in 0..1, S \in 0..1}

\* np.concatenate of constant blocks: block k has sizes[k] entries values[k]
RECURSIVE Blocks(_, _)
Blocks(sizes, values) ==
    IF sizes = <<>> THEN <<>>
    ELSE [i \in 1..Head(sizes) |-> Head(values)]
           \o Blocks(Tail(sizes), Tail(values))

RECURSIVE cumsum(_)
cumsum(x) ==
    IF x = <<>> THEN <<>>
    ELSE LET c == cumsum(SubSeq(x, 1, Len(x) - 1))
         IN  Append(c, (IF c = <<>> THEN 0 ELSE c[Len(c)]) + x[Len(x)])

\* RadauIIa.__init__: assert dae_index in [2, 3, "GGL"]; ny; the mass
\* matrix (identity with the block after nq + nu zeroed: zero_rows);
\* index_array; split_y.  The mass matrix is kept by blocks: eye(ny) with
\* everything after nq + nu set to 0
RadauIIa_init(dae_index, lazy_mass_matrix, dims) ==
    IF dae_index \notin {"2", "3", "GGL"}
    THEN [raised |-> "AssertionError"]
    ELSE LET base == dims.nq + dims.nu + dims.nla_g + dims.nla_gamma + dims.nla_S
             ny == IF dae_index = "GGL" THEN base + dims.nla_g ELSE base
         IN  [raised |-> "no", dae_index |-> dae_index, dims |-> dims,
              lazy_mass_matrix |-> lazy_mass_matrix,
              mass_matrix |-> [q |-> "eye", u |-> "eye", la |-> "0"],
              ny |-> ny,
              zero_rows |-> (dims.nq + dims.nu + 1)..ny,
              index_array |->
                IF dae_index = "2"
                THEN Blocks(<<dims.nq + dims.nu, dims.nla_g, dims.nla_gamma,
                              dims.nla_S>>, <<0, 2, 2, 3>>)
                ELSE IF dae_index = "3"
                THEN Blocks(<<dims.nq + dims.nu, dims.nla_g, dims.nla_gamma,
                              dims.nla_S>>, <<0, 3, 2, 3>>)
                ELSE Blocks(<<dims.nq + dims.nu, dims.nla_g, dims.nla_gamma,
                              dims.nla_S, dims.nla_g>>, <<0, 2, 2, 3, 3>>),
              split_y |-> cumsum(<<dims.nq, dims.nu, dims.nla_g,
                                   dims.nla_gamma, dims.nla_S>>)]

\* np.array_split(y, self.split_y): the six pieces of 1..ny, bound in fun to
\* q, u, la_g, la_gamma, mu_S, mu_g
array_split(ny, split_y) ==
    [k \in 1..(Len(split_y) + 1) |->
        {i \in 1..ny : /\ (k > 1 => i > split_y[k - 1])
                       /\ (k <= Len(split_y) => i <= split_y[k])}]

\* dy[a:b] = v
SliceAssign(dy, a, b, v) ==
    [i \in 1..Len(dy) |-> IF a < i /\ i <= b THEN v ELSE dy[i]]

\* RadauIIa.fun from dy = np.zeros(self.ny) on: which equation each entry
\* of dy holds
fun_body(o) ==
    LET sp == o.split_y
        dy0 == [i \in 1..o.ny |-> "0"]
        dy1 == SliceAssign(dy0, 0, o.dims.nq, "q_dot")
        dy2 == SliceAssign(dy1, sp[1], sp[2], "rhs")
        dy3 == SliceAssign(dy2, sp[3], sp[4], "gamma")
        dy4 == SliceAssign(dy3, sp[4], sp[5], "g_S")
    IN  IF o.dae_index = "2" THEN SliceAssign(dy4, sp[2], sp[3], "g_dot")
        ELSE IF o.dae_index = "3" THEN SliceAssign(dy4, sp[2], sp[3], "g")
        ELSE SliceAssign(SliceAssign(dy4, sp[2], sp[3], "g_dot"),
                         sp[5], o.ny, "g")

\* what class RadauIIa defines and its __init__ binds
RadauIIaAttributes ==
    {"__init__", "event", "fun", "jac", "solve", "system", "rtol", "atol",
     "dae_index", "lazy_mass_matrix", "kwargs", "t1", "dt", "t_eval", "frac",
     "pbar", "i", "nq", "nu", "nla_g", "nla_gamma", "nla_S", "ny",
     "mass_matrix", "index_array", "split_y", "y0"}

\* RadauIIa.fun: after np.array_split it calls self.pre_iteration_update
\* (line 835), before M is written into self.mass_matrix (lines 857-861)
RadauIIa_fun(o) ==
    IF "pre_iteration_update" \notin RadauIIaAttributes
    THEN [raised |-> "AttributeError", ret |-> <<>>,
          mass_matrix |-> o.mass_matrix]
    ELSE [raised |-> "no", ret |-> fun_body(o),
          mass_matrix |-> IF o.lazy_mass_matrix
                          THEN [o.mass_matrix EXCEPT !.u = "M(t, q)"]
                          ELSE o.mass_matrix]

\* RadauIIa.solve: solve_ivp(self.fun, ..., method=Radau, ...) constructs
\* the Radau solver, whose __init__ evaluates self.f = self.fun(t0, y0), and
\* then steps it; status is what the stepping ends with.
\* assert sol.success, "solve_ivp failed"
RadauIIa_solve(o, status) ==
    LET f0 == RadauIIa_fun(o)
    IN  IF f0.raised # "no" THEN [raised |-> f0.raised, ret |-> "none"]
        ELSE IF status = "failed"
        THEN [raised |-> "AssertionError", ret |-> "none"]
        ELSE [raised |-> "no", ret |-> "Solution"]

NoRadauIIaCall == [name |-> "none", raised |-> "no", ret |-> <<>>]

RadauIIaInitial ==
    {[mode |-> "RadauIIa", pc |-> "new", dae_index |-> di, dims |-> dims,
      lazy_mass_matrix |-> lazy, obj |-> [raised |-> "no"],
      call |-> NoRadauIIaCall] :
        di \in DaeIndexInputs, dims \in RadauIIaDims, lazy \in BOOLEAN}

InitRadau ==
    /\ radau \in RadauInitial \cup RadauIIaInitial
    /\ rod = NoRod /\ joint = NoJoint /\ lobatto = NoLobatto
    /\ solver = "none" /\ method = "none" /\ sys = DefaultSystem
    /\ cic_in = ConsistentCic /\ t1 = 1 /\ dt = 1 /\ pc = "none"
    /\ heap = DefaultHeap /\ self = NoSelf /\ loc = [k |-> 0, ret |-> NoRet]
    /\ rec = NoLists /\ snap = NoLists
    /\ cic = [calls |-> 0, status |-> "not called", before_steps |-> TRUE]
    /\ hist = [steps |-> 0, callbacks |-> 0, cb_q |-> <<>>, cb_u |-> <<>>]
    /\ result = NoResult

RadauIIaNew ==
    /\ radau.mode = "RadauIIa" /\ radau.pc = "new"
    /\ LET o == RadauIIa_init(radau.dae_index, radau.lazy_mass_matrix,
                               radau.dims)
       IN  radau' = [radau EXCEPT
                       !.pc = IF o.raised = "no" THEN "constructed" ELSE "raised",
                       !.obj = o]
    /\ UNCHANGED <<rod, joint, lobatto, solverVars>>

RadauIIaFun ==
    /\ radau.mode = "RadauIIa" /\ radau.pc = "constructed"
    /\ LET r == RadauIIa_fun(radau.obj)
       IN  radau' = [radau EXCEPT
                       !.obj.mass_matrix = r.mass_matrix,
                       !.call = [name |-> "fun", raised |-> r.raised,
                                 ret |-> r.ret]]
    /\ UNCHANGED <<rod, joint, lobatto, solverVars>>

RadauIIaSolve ==
    /\ radau.mode = "RadauIIa" /\ radau.pc = "constructed"
    /\ \E status \in {"finished", "failed"} :
         LET r == RadauIIa_solve(radau.obj, status)
         IN  radau' = [radau EXCEPT !.call =
                         [name |-> "solve", raised |-> r.raised, ret |-> r.ret]]
    /\ UNCHANGED <<rod, joint, lobatto, solverVars>>

NextRadau ==
    \/ RadauNew
    \/ RadauStepBegin
    \/ RadauTooSmall
    \/ RadauNewtonFailed
    \/ RadauConverged
    \/ RadauIIaNew
    \/ RadauIIaFun
    \/ RadauIIaSolve

SpecRadau == InitRadau /\ [][NextRadau]_vars

-----------------------------------------------------------------------------
(* LobattoIIIAB: the unknown vector, the residual R and solve.  The methods *)
(* are functions of the attributes of the object and of their arguments;   *)
(* the object here holds the attributes that lines 20-91 of __init__       *)
(* assign from a 9-tuple (tn, qn, un, q_dotn, u_dotn, la_gn, la_gamman,    *)
(* la_Nn, la_Fn).  The system of an object that is stepped is the point    *)
(* mass above (M = identity, friction along x at both contacts).           *)

\* np.tile(v, n)
tile(v, n) == [k \in 1..(n * Len(v)) |-> v[((k - 1) % Len(v)) + 1]]

\* x.reshape(rows, cols, order="F"): entry [s, j] is x[s + rows * j]
reshape_F(x, rows, cols) ==
    [s \in 1..rows |-> [j \in 1..cols |-> x[(s - 1) + rows * (j - 1) + 1]]]

\* x.reshape(rows, cols), the default order "C": entry [s, j] is x[s * cols + j]
reshape_C(x, rows, cols) ==
    [s \in 1..rows |-> [j \in 1..cols |-> x[(s - 1) * cols + (j - 1) + 1]]]

\* X.flatten(order="F"): columns one after the other
flatten_F(X) ==
    LET rows == Len(X)
        cols == IF rows = 0 THEN 0 ELSE Len(X[1])
    IN  [k \in 1..(rows * cols) |-> X[((k - 1) % rows) + 1][((k - 1) \div rows) + 1]]

\* lines 71-91: self.yn and self.split_y
initial_yn(stages, un, la_N0, la_F0) ==
    tile(un, stages) \o un \o tile(la_N0, stages) \o tile(la_F0, stages)
split_y(stages, n_u, n_N) == cumsum(<<n_u * stages, n_u, n_N * stages>>)

\* unpack_y with the stage blocks read row by row
unpack_y_C(o, y) ==
    LET sp == split_y(o.stages, o.nu, o.nla_N)
    IN  [U   |-> reshape_C(SubSeq(y, 1, sp[1]), o.stages, o.nu),
         u   |-> SubSeq(y, sp[1] + 1, sp[2]),
         R_N |-> reshape_C(SubSeq(y, sp[2] + 1, sp[3]), o.stages, o.nla_N),
         R_F |-> reshape_C(SubSeq(y, sp[3] + 1, Len(y)), o.stages, o.nla_F)]

\* lines 93-98: np.array_split(y, self.split_y) and the three reshapes
unpack_y(o, y) ==
    LET sp == split_y(o.stages, o.nu, o.nla_N)
    IN  [U   |-> reshape_F(SubSeq(y, 1, sp[1]), o.stages, o.nu),
         u   |-> SubSeq(y, sp[1] + 1, sp[2]),
         R_N |-> reshape_F(SubSeq(y, sp[2] + 1, sp[3]), o.stages, o.nla_N),
         R_F |-> reshape_F(SubSeq(y, sp[3] + 1, Len(y)), o.stages, o.nla_F)]

\* the two-stage Lobatto IIIA / IIIB pair; A, b, A_hat, b_hat in halves
LobattoTableau ==
    [A |-> <<(<<0, 0>>), (<<1, 1>>)>>, b |-> <<1, 1>>, c |-> <<0, 1>>,
     A_hat |-> <<(<<1, 0>>), (<<1, 0>>)>>, b_hat |-> <<1, 1>>]

\* prox_R0_np, prox_sphere of cardillo.math for one component
prox_R0_np(x) == IF x > 0 THEN x ELSE 0
prox_sphere(x, radius) == IF Abs(x) <= radius THEN x ELSE radius * Sign(x)

\* R with the index set written on every evaluation
update_I_Always(update_indexset, I_i, prox_arg) ==
    [j \in 1..Len(prox_arg) |-> prox_arg[j] <= 0]

\* lines 166-168: if update_indexset: self.I[i] = prox_arg <= 0
update_I(update_indexset, I_i, prox_arg) ==
    IF update_indexset THEN [j \in 1..Len(prox_arg) |-> prox_arg[j] <= 0]
    ELSE I_i

\* lines 100-204: R(y, update_indexset) of a two-stage object o with system
\* sy; returns the object after the call and the residual vector
Lobatto_R(o, sy, y, update_indexset) ==
    LET hh    == o.dt \div 2
        Y     == unpack_y(o, y)
        U     == Y.U
        un1   == Y.u
        R_N   == Y.R_N
        R_F   == Y.R_F
        T     == LobattoTableau
        row(Mx, X, i) == [d \in 1..Len(X[1]) |->
                             Mx[i][1] * X[1][d] + Mx[i][2] * X[2][d]]
        dot(b_, X)    == [d \in 1..Len(X[1]) |-> b_[1] * X[1][d] + b_[2] * X[2][d]]
        Q     == [i \in 1..2 |-> q_dot_update(o.qn, hh, row(T.A, U, i))]
        qn1   == Q[2]
        tn1   == o.tn + o.dt
        p_N   == [j \in 1..nla_N |-> hh * dot(T.b_hat, R_N)[j]]
        p_F   == [c \in 1..nla_T |-> hh * dot(T.b_hat, R_F)[c]]
        F     == [i \in 1..2 |-> [d \in 1..nu |->
                    h(sy)[d] + W_N(R_N[i])[d] + W_T(R_F[i])[d]]]
        prox_arg == [j \in 1..nla_N |->
                       g_N(sy, Q[2])[j] - o.prox_r_N[j] * R_N[1][j]]
        I2    == update_I(update_indexset, o.I[2], prox_arg)
        I     == <<o.I[1], I2>>
        R2_1  == [j \in 1..nla_N |-> IF I[2][j] THEN g_N(sy, Q[2])[j] ELSE R_N[1][j]]
        R3_1  == [c \in 1..nla_T |->
                    R_F[1][c] + prox_sphere(o.prox_r_F[ContactOf(c)] * gamma_T(U[2])[c]
                                              - R_F[1][c],
                                            sy.mu[ContactOf(c)] * R_N[1][ContactOf(c)])]
        xiN   == xi_N(sy, o.un, un1)
        xiF   == xi_T(sy, o.un, un1)
        R2_2  == [j \in 1..nla_N |->
                    IF I[1][j] \/ I[2][j]
                    THEN xiN[j] - prox_R0_np(xiN[j] - o.prox_r_N[j] * p_N[j])
                    ELSE p_N[j]]
        R3_2  == [c \in 1..nla_T |->
                    p_F[c] + prox_sphere(o.prox_r_F[ContactOf(c)] * xiF[c] - p_F[c],
                                         sy.mu[ContactOf(c)] * p_N[ContactOf(c)])]
        R1    == [i \in 1..2 |-> [d \in 1..nu |->
                    U[i][d] - (o.un[d] + hh * row(T.A_hat, F, i)[d])]]
        r1    == [d \in 1..nu |-> un1[d] - (o.un[d] + hh * dot(T.b_hat, F)[d])]
    IN  [obj |-> [o EXCEPT !.I = I, !.tn1 = tn1, !.qn1 = qn1, !.un1 = un1,
                           !.P_Nn1 = p_N, !.P_Fn1 = p_F],
         ret |-> flatten_F(R1) \o r1 \o flatten_F(<<R2_1, R2_2>>)
                 \o flatten_F(<<R3_1, R3_2>>)]

\* the system of a stepped object, and the arguments of its constructor
LobattoSystems ==
    [t0 : {0}, H : {CeilingH}, hx : {0}, hy : {-1, 0}, hz : {0},
     mu : {<<1, 1>>}, prox_r_N : {<<1, 1>>}, prox_r_T : {<<1, 1>>}, e_N : {0}]

LobattoStepped ==
    { [kind |-> "stepped", sy |-> sy, stages |-> 2, nu |-> nu,
       nla_N |-> nla_N, nla_F |-> nla_T, dt |-> 2, t1 |-> t_end,
       q0 |-> <<0, y0, 0, 0, 0>>, u0 |-> u0,
       la_N0 |-> IF y0 = 0 THEN <<1, 0>> ELSE <<0, 0>>, la_F0 |-> <<0, 0>>] :
        sy \in LobattoSystems, t_end \in {2, 4}, y0 \in 0..CeilingH,
        u0 \in {<<0, 0, 0, 0>>, <<1, -1, 0, 0>>} }

\* objects of other sizes, used for the unknown vector only
LobattoPacking ==
    { [kind |-> "packing", sy |-> DefaultSystem, stages |-> st, nu |-> n_u,
       nla_N |-> n_N, nla_F |-> n_F, dt |-> 2, t1 |-> 2,
       q0 |-> <<>>, u0 |-> SubSeq(<<11, 12, 13>>, 1, n_u),
       la_N0 |-> SubSeq(<<21, 22>>, 1, n_N),
       la_F0 |-> SubSeq(<<31, 32>>, 1, n_F)] :
        st \in 1..3, n_u \in 1..3, n_N \in 1..2, n_F \in 0..2 }

NoEval == [y |-> <<>>, update_indexset |-> FALSE, I_before |-> <<>>,
           ret |-> <<>>]
NoIterate == [y |-> <<>>, error |-> 0, set |-> FALSE]
NoLobattoObj ==
    [stages |-> 0, nu |-> 0, nla_N |-> 0, nla_F |-> 0, dt |-> 0, t |-> <<>>,
     tn |-> 0, qn |-> <<>>, un |-> <<>>, P_Nn |-> <<>>, P_Fn |-> <<>>,
     I |-> <<>>, yn |-> <<>>, prox_r_N |-> <<>>, prox_r_F |-> <<>>,
     tn1 |-> 0, qn1 |-> <<>>, un1 |-> <<>>, P_Nn1 |-> <<>>, P_Fn1 |-> <<>>]

LobattoInitial ==
    { [pc |-> "new", args |-> a, obj |-> NoLobattoObj, unpacked |-> <<>>,
       ev |-> NoEval, nev |-> 0, it |-> NoIterate, k |-> 0,
       fs |-> [yn1 |-> <<>>, converged |-> FALSE, tn |-> 0, qn |-> <<>>,
               un |-> <<>>, P_Nn |-> <<>>, P_Fn |-> <<>>],
       cb |-> [t |-> 0, q |-> <<>>, u |-> <<>>],
       q |-> <<>>, u |-> <<>>, P_N |-> <<>>, P_F |-> <<>>,
       raised |-> "no"] : a \in LobattoStepped \cup LobattoPacking }

InitLobatto ==
    /\ lobatto \in LobattoInitial
    /\ rod = NoRod /\ radau = NoRadau /\ joint = NoJoint
    /\ solver = "none" /\ method = "none" /\ sys = DefaultSystem
    /\ cic_in = ConsistentCic /\ t1 = 1 /\ dt = 1 /\ pc = "none"
    /\ heap = DefaultHeap /\ self = NoSelf /\ loc = [k |-> 0, ret |-> NoRet]
    /\ rec = NoLists /\ snap = NoLists
    /\ cic = [calls |-> 0, status |-> "not called", before_steps |-> TRUE]
    /\ hist = [steps |-> 0, callbacks |-> 0, cb_q |-> <<>>, cb_u |-> <<>>]
    /\ result = NoResult

\* lines 20-50 and 64-91 of __init__: the attributes, from the initial state
LobattoNew ==
    /\ lobatto.pc = "new"
    /\ LET a == lobatto.args
       IN  lobatto' = [lobatto EXCEPT
             !.pc = "constructed",
             !.obj = [NoLobattoObj EXCEPT
                !.stages = a.stages, !.nu = a.nu, !.nla_N = a.nla_N,
                !.nla_F = a.nla_F, !.dt = a.dt,
                !.t = arange(a.sy.t0, a.t1 + a.dt, a.dt),
                !.tn = a.sy.t0, !.qn = a.q0, !.un = a.u0,
                !.P_Nn = a.la_N0, !.P_Fn = a.la_F0,
                !.I = [s \in 1..a.stages |-> [j \in 1..a.nla_N |-> FALSE]],
                !.yn = initial_yn(a.stages, a.u0, a.la_N0, a.la_F0)]]
    /\ UNCHANGED <<rod, radau, joint, solverVars>>

\* a call of unpack_y(self.yn)
LobattoUnpack ==
    /\ lobatto.pc = "constructed"
    /\ lobatto' = [lobatto EXCEPT
                     !.unpacked = unpack_y(lobatto.obj, lobatto.obj.yn)]
    /\ UNCHANGED <<rod, radau, joint, solverVars>>

\* solve, lines 207-214: the lists of output variables
LobattoSolveBegin ==
    /\ lobatto.pc = "constructed" /\ lobatto.args.kind = "stepped"
    /\ lobatto' = [lobatto EXCEPT
                     !.pc = "loop", !.k = 0,
                     !.q = <<lobatto.obj.qn>>, !.u = <<lobatto.obj.un>>,
                     !.P_N = <<lobatto.obj.P_Nn>>, !.P_F = <<lobatto.obj.P_Fn>>]
    /\ UNCHANGED <<rod, radau, joint, solverVars>>

\* lines 216-220: the prox parameters, once per time step; fsolve is entered
LobattoStepBegin ==
    /\ lobatto.pc = "loop" /\ lobatto.k < Len(lobatto.obj.t) - 1
    /\ lobatto' = [lobatto EXCEPT
                     !.pc = "fsolve", !.nev = 0, !.it = NoIterate,
                     !.ev = NoEval,
                     !.obj.prox_r_N = lobatto.args.sy.prox_r_N,
                     !.obj.prox_r_F = lobatto.args.sy.prox_r_T]
    /\ UNCHANGED <<rod, radau, joint, solverVars>>

\* a vector of unknowns in the layout of unpack_y: stage velocities a, b
\* and end velocity c along y, floor impulses r1, r2 of the two stages
PackY(a, b, c, r1, r2) ==
    flatten_F(<<(<<0, a, 0, 0>>), (<<0, b, 0, 0>>)>>) \o <<0, c, 0, 0>>
    \o flatten_F(<<(<<r1, 0>>), (<<r2, 0>>)>>)
    \o flatten_F(<<(<<0, 0>>), (<<0, 0>>)>>)

\* points at which the nonlinear solver evaluates R
LobattoYs(o) ==
    {o.yn, PackY(0, 0, 0, 1, 1), PackY(0, 0, 0, 1, 0), PackY(0, 0, 0, 0, 0),
     PackY(-1, -1, -1, 0, 0)}

\* lines 222-231: one evaluation of R by fsolve, as the residual
\* (fun_args = (True,)) or for a finite-difference column of the Jacobian
\* (jac_args = (False,)); fsolve itself is outside the repository, so the
\* order of its evaluations is not fixed here
LobattoEvalR ==
    /\ lobatto.pc = "fsolve" /\ lobatto.nev < MaxEvals
    /\ \E update_indexset \in BOOLEAN, y \in LobattoYs(lobatto.obj) :
         \E r \in {Lobatto_R(lobatto.obj, lobatto.args.sy, y, update_indexset)} :
           lobatto' = [lobatto EXCEPT
              !.obj = r.obj, !.nev = @ + 1,
              !.ev = [y |-> y, update_indexset |-> update_indexset,
                      I_before |-> lobatto.obj.I, ret |-> r.ret],
              !.it = IF update_indexset
                     THEN [y |-> y, error |-> error_function(r.ret),
                           set |-> TRUE]
                     ELSE @]
    /\ UNCHANGED <<rod, radau, joint, solverVars>>

\* lines 222-262: fsolve returns its last iterate yn1, converged when the
\* residual there is zero; then the rest of the loop body: self.yn = yn1,
\* the raise, step_callback, the appends and the update of the accepted
\* state
LobattoAfterFsolve ==
    /\ lobatto.pc = "fsolve" /\ lobatto.it.set
    /\ LET o         == lobatto.obj
           converged == lobatto.it.error < newton_tol
           cb        == step_callback(o.qn1, o.un1)
           fs        == [yn1 |-> lobatto.it.y, converged |-> converged,
                         tn |-> o.tn, qn |-> o.qn, un |-> o.un,
                         P_Nn |-> o.P_Nn, P_Fn |-> o.P_Fn]
       IN  IF ~converged
           THEN lobatto' = [lobatto EXCEPT
                   !.pc = "raised", !.raised = "RuntimeError", !.fs = fs,
                   !.obj.yn = lobatto.it.y]
           ELSE lobatto' = [lobatto EXCEPT
                   !.pc = "loop", !.k = @ + 1, !.fs = fs,
                   !.cb = [t |-> o.tn1, q |-> o.qn1, u |-> o.un1],
                   !.q = Append(@, cb.q), !.u = Append(@, cb.u),
                   !.P_N = Append(@, o.P_Nn1), !.P_F = Append(@, o.P_Fn1),
                   !.obj = [o EXCEPT !.yn = lobatto.it.y, !.qn1 = cb.q,
                                     !.un1 = cb.u, !.tn = o.tn1, !.qn = cb.q,
                                     !.un = cb.u, !.P_Nn = o.P_Nn1,
                                     !.P_Fn = o.P_Fn1]]
    /\ UNCHANGED <<rod, radau, joint, solverVars>>

\* lines 264-273: the Solution
LobattoReturn ==
    /\ lobatto.pc = "loop" /\ lobatto.k >= Len(lobatto.obj.t) - 1
    /\ lobatto' = [lobatto EXCEPT !.pc = "returned"]
    /\ UNCHANGED <<rod, radau, joint, solverVars>>

NextLobatto ==
    \/ LobattoNew
    \/ LobattoUnpack
    \/ LobattoSolveBegin
    \/ LobattoStepBegin
    \/ LobattoEvalR
    \/ LobattoAfterFsolve
    \/ LobattoReturn

SpecLobatto == InitLobatto /\ [][NextLobatto]_vars

-----------------------------------------------------------------------------
(* Properties *)

Moreau == solver = "Moreau"
\* samples 2..Len(rec.q) are the accepted steps; sample 1 is the initial state
Accepted == 2..Len(rec.q)
LastSample == Len(rec.q)

\* C1: a step of Moreau.solve that returns converged = False is fatal in that
\* very step: solve raises RuntimeError, the callback has not been invoked
\* for it, no sample was appended for it, the accepted state tk, qk, uk,
\* la_gk, la_gammak, P_Nk, P_Tk is still the last recorded sample, no later
\* step has been executed and no Solution exists.
C1_NonConvergedStepIsFatal ==
    (Moreau /\ hist.steps > 0 /\ ~loc.ret.converged) =>
        /\ pc \in {"stepped", "raised"}
        /\ pc = "raised" => result.kind = "RuntimeError"
        /\ pc = "stepped" => result.kind = "none"
        /\ hist.callbacks = loc.k
        /\ LastSample = loc.k + 1
        /\ hist.steps = loc.k + 1
        /\ self.tk = sys.t0 + loc.k * dt
        /\ self.qk = rec.q[LastSample] /\ self.uk = rec.u[LastSample]
        /\ self.la_gk = rec.la_g[LastSample]
        /\ self.la_gammak = rec.la_gamma[LastSample]
        /\ self.P_Nk = rec.P_N[LastSample] /\ self.P_Tk = rec.P_T[LastSample]

\* a run that accepted a step and then raised on a non-converged one
C1_Witness ==
    /\ Moreau /\ pc = "raised" /\ result.kind = "RuntimeError"
    /\ ~loc.ret.converged /\ loc.k >= 1

C6_Original ==
    (Moreau /\ pc = "returned") =>
        /\ hist.steps = Len(self.t) - 1
        /\ self.tk = t1
        /\ \A k \in 1..Len(self.t) : self.t[k] <= t1

\* C7: the six lists of solve() always have the same length, sample 1 is the
\* initial state, the sample appended at step k is the state accepted at
\* step k, the contents of an appended sample never change afterwards, and
\* the returned arrays have one row per entry of t.  (solve() of a solver
\* constructed with t1 > t0.)
C7_TrajectoryAppendOnlyAligned ==
    (Moreau /\ t1 > sys.t0 /\ pc \notin {"new", "constructed"}) =>
        /\ \A l \in {rec.u, rec.la_g, rec.la_gamma, rec.P_N, rec.P_T} :
              Len(l) = LastSample
        /\ LastSample = loc.k + 1 + (IF pc = "appended" THEN 1 ELSE 0)
        /\ \A k \in 1..LastSample :
              /\ heap[rec.q[k]] = snap.q[k] /\ heap[rec.u[k]] = snap.u[k]
              /\ heap[rec.la_g[k]] = snap.la_g[k]
              /\ heap[rec.la_gamma[k]] = snap.la_gamma[k]
              /\ heap[rec.P_N[k]] = snap.P_N[k]
              /\ heap[rec.P_T[k]] = snap.P_T[k]
        /\ snap.q[1] = heap[A_q0] /\ snap.u[1] = heap[A_u0]
        /\ snap.la_g[1] = heap[A_la_g0] /\ snap.la_gamma[1] = heap[A_la_gamma0]
        /\ snap.P_N[1] = <<heap[A_la_N0][1] * dt, heap[A_la_N0][2] * dt>>
        /\ snap.P_T[1] = <<heap[A_la_T0][1] * dt, heap[A_la_T0][2] * dt>>
        /\ pc \in {"loop", "returned"} =>
              /\ self.tk = self.t[LastSample]
              /\ self.qk = rec.q[LastSample] /\ self.uk = rec.u[LastSample]
              /\ self.la_gk = rec.la_g[LastSample]
              /\ self.la_gammak = rec.la_gamma[LastSample]
              /\ self.P_Nk = rec.P_N[LastSample]
              /\ self.P_Tk = rec.P_T[LastSample]
        /\ pc = "returned" =>
              /\ result.kind = "Solution"
              /\ \A l \in {result.q, result.u, result.la_g, result.la_gamma,
                           result.P_N, result.P_T} : Len(l) = Len(result.t)
              /\ \A k \in 1..Len(result.t) :
                    /\ result.q[k] = snap.q[k] /\ result.u[k] = snap.u[k]
                    /\ result.la_g[k] = snap.la_g[k]
                    /\ result.P_N[k] = snap.P_N[k]
                    /\ result.P_T[k] = snap.P_T[k]

\* a returned trajectory of three samples whose impulses changed on the way
C7_Witness ==
    /\ Moreau /\ pc = "returned" /\ Len(result.t) >= 3
    /\ result.P_N[2] /= result.P_N[1] /\ result.P_N[3] /= result.P_N[2]

ResidualsWithinTol(ci) ==
    \A x \in {ci.g, ci.g_S, ci.g_dot, ci.gamma, ci.g_ddot, ci.gamma_dot} :
        \A i \in 1..Len(x) : -atol <= x[i] /\ x[i] <= atol

\* C8: consistent_initial_conditions returns only if all position-,
\* velocity- and acceleration-level bilateral residuals are within atol;
\* if one exceeds it the call fails with AssertionError, nothing is returned,
\* no integrator object exists and no step is taken.
C8_ReturnsOnlyIfResidualsSmall ==
    cic.calls > 0 =>
        /\ cic.status = "returned" => ResidualsWithinTol(cic_in)
        /\ ~ResidualsWithinTol(cic_in) =>
              /\ cic.status /= "returned"
              /\ pc = "raised" /\ result.kind = "AssertionError"
              /\ hist.steps = 0 /\ self = NoSelf

\* only the acceleration-level residual is too large, and the call failed
C8_Witness ==
    /\ cic.calls > 0 /\ cic.status = "assert g_ddot"
    /\ cic_in.g = <<1>> /\ cic_in.g_ddot = <<-2>>
    /\ result.kind = "AssertionError"

\* C9 as stated: the call fails whenever some gap is negative or some contact
\* has a positive gap together with a closing velocity below -atol.
C9_Original ==
    (cic.calls > 0
       /\ \E i \in 1..Len(cic_in.g_N) :
             \/ cic_in.g_N[i] < 0
             \/ cic_in.g_N[i] > 0 /\ cic_in.g_N_dot[i] < -atol)
    => cic.status /= "returned"

\* C9 as amended: the call fails (assertion) whenever some gap is negative
\* or some contact with zero gap has a closing velocity below -atol.
C9_FailsOnInfeasibleContacts ==
    (cic.calls > 0
       /\ \E i \in 1..Len(cic_in.g_N) :
             \/ cic_in.g_N[i] < 0
             \/ cic_in.g_N[i] = 0 /\ cic_in.g_N_dot[i] < -atol)
    => /\ cic.status \in {"assert g_N", "assert g_N_dot"}
       /\ pc = "raised" /\ result.kind = "AssertionError"

\* no gap is negative, a closed contact closes further, and the call failed
C9_Witness ==
    /\ cic.calls > 0 /\ cic.status = "assert g_N_dot"
    /\ cic_in.g_N = <<0, 1>> /\ cic_in.g_N_dot[1] = -2

\* C10 as stated: once a time step has been taken,
\* consistent_initial_conditions has been executed exactly once, and before
\* that first step.
C10_Original ==
    hist.steps > 0 => (cic.calls = 1 /\ cic.before_steps)

\* C29 as stated: the tuple consistent_initial_conditions returns has
\* exactly the components LobattoIIIAB.__init__ unpacks, so that for
\* t1 > t0 and initial conditions that pass the consistency checks the
\* constructor completes.
C29_Original ==
    (solver = "LobattoIIIAB" /\ pc # "new" /\ t1 > sys.t0
       /\ cic.status = "returned") =>
        /\ cic_tuple_len = lobatto_unpack_len
        /\ pc = "constructed"
        /\ result.kind = "none"

\* C30 as stated: constructing Moreau, Moreau_sym, LobattoIIIAB or RadauIIa
\* with t1 <= t0 raises ValueError; no time grid is built and no object
\* results.
C30_Original ==
    (pc # "new" /\ t1 <= sys.t0) =>
        /\ pc = "raised"
        /\ result.kind = "ValueError"
        /\ self.t = <<>>

\* what holds of C30: with t1 <= t0 every constructor raises (TypeError, at
\* the sum self.t1 + self.dt) before a time grid exists
C30_NoObject ==
    (pc # "new" /\ t1 <= sys.t0) =>
        /\ pc = "raised"
        /\ result.kind = "TypeError"
        /\ self = NoSelf /\ cic.calls = 0

-----------------------------------------------------------------------------
(* Properties of the rod (specification SpecRod) *)

\* C11: for a rod whose configuration q equals its reference configuration
\* Q, eval_strains returns exactly (0, 0) at every xi, the strains handed to
\* the material model in f_pot_el are the cached K_Gamma0, K_Kappa0 (same
\* numerator over the same J), and f_pot_el is zero.
C11_ReferenceConfigurationIsStressFree ==
    (rod.pc = "ready" /\ rod.call.q = rod.Q) =>
        /\ rod.call.name = "eval_strains" =>
              rod.call.ret = <<Frac(0, rod.call.ret[1].d), Frac(0, rod.call.ret[2].d)>>
        /\ rod.call.name = "f_pot_el" =>
              /\ \A i \in 1..rod.nquadrature :
                    /\ rod.call.strains[i].K_Gamma = rod.ref[rod.call.at][i].K_Gamma0
                    /\ rod.call.strains[i].K_Kappa = rod.ref[rod.call.at][i].K_Kappa0
                    /\ FracIsZero(rod.call.strains[i].K_n)
                    /\ FracIsZero(rod.call.strains[i].K_m)
              /\ \A k \in 1..nu_element : FracIsZero(rod.call.ret[k])

\* C11 witness: f_pot_el was called with q = Q on a rod whose reference is
\* twisted and stretched (non-zero reference curvature, J > 1).
C11_Witness ==
    /\ rod.pc = "ready" /\ rod.call.name = "f_pot_el" /\ rod.call.q = rod.Q
    /\ rod.call.at = nelement
    /\ ~FracIsZero(rod.ref[nelement][1].K_Kappa0)
    /\ rod.ref[nelement][1].J > 1

\* determinant of the submatrix of M with the given rows and columns
\* (sequences of indices), expanded along its first row
RECURSIVE Minor(_, _, _)
RECURSIVE MinorSum(_, _, _, _)
Minor(M, rows, cols) ==
    IF rows = <<>> THEN 1 ELSE MinorSum(M, rows, cols, 1)
MinorSum(M, rows, cols, j) ==
    IF j > Len(cols) THEN 0
    ELSE LET rest == SubSeq(cols, 1, j - 1) \o SubSeq(cols, j + 1, Len(cols))
             sgn == IF j % 2 = 1 THEN 1 ELSE -1
             entry == M[rows[1]][cols[j]]
         IN  (IF entry = 0 THEN 0
              ELSE sgn * entry * Minor(M, Tail(rows), rest))
             + MinorSum(M, rows, cols, j + 1)

Symmetric(M) == \A k, l \in DOMAIN M : M[k][l] = M[l][k]

\* Sylvester's criterion: every leading principal minor is positive
PositiveDefinite(M) ==
    \A k \in DOMAIN M : Minor(M, [i \in 1..k |-> i], [i \in 1..k |-> i]) > 0

\* C12 as stated: the matrix CosseratRod.M(t, q) returns is symmetric and
\* positive definite (density, inertia, reference Jacobians and quadrature
\* weights are positive in every rod of the model) and is the same matrix
\* for every q.
C12_Original ==
    (rod.pc = "ready" /\ rod.call.name = "M" /\ rod.call.raised = "no") =>
        /\ Symmetric(rod.call.ret)
        /\ PositiveDefinite(rod.call.ret)
        /\ rod.call.ret = rod.M

\* C18: a derivative routine of CosseratRod, CosseratRodMixed or
\* CosseratRodConstrained that finds no _deval on the rod calls
\* warnings.warn on every such call and returns approx_fprime of the
\* function it differentiates; with _deval on the rod it warns nothing and
\* returns the analytic expression.  Hence the number of warnings equals
\* the number of finite-difference results handed out.
C18_FallbackDerivativeWarns ==
    /\ rod.pc = "ready" => rod.warnings = rod.fallbacks
    /\ (rod.pc = "ready" /\ rod.call.name \in DOMAIN DerivativeRoutines) =>
          LET ret == rod.call.ret
          IN  IF rod.has_deval
              THEN /\ ~ret.warned /\ ret.kind = "analytic"
                   /\ ret.of = rod.call.name
                   /\ rod.warnings = 0
              ELSE /\ ret.warned /\ ret.kind = "approx_fprime"
                   /\ ret.of = DerivativeRoutines[rod.call.name].of
                   /\ rod.warnings > 0

\* C18 witness: the second fallback call on a mixed constrained rod without
\* _deval, a routine of the constrained variant, warned again.
C18_Witness ==
    /\ rod.pc = "ready" /\ ~rod.has_deval
    /\ rod.cls = "CosseratRodMixedConstrained"
    /\ rod.call.name = "Wla_g_q_el"
    /\ rod.call.ret.warned /\ rod.warnings = 2 /\ rod.fallbacks = 2

\* C23 as stated: after construction and assembler_callback, the matrix
\* that M(t, q) returns is the one assembled from the reference Jacobians
\* J_dyn of the current reference configuration, also after the reference
\* was redefined with set_reference_strains(Q').
C23_Original ==
    (rod.pc = "ready" /\ rod.call.name = "M" /\ rod.call.raised = "no") =>
        rod.call.ret = _M_coo(rod.J_dyn, rod.nquadrature_dyn, rod.inertias)

-----------------------------------------------------------------------------
(* Properties of Moreau.solve (specification Spec), continued *)

\* an unloaded system at rest: h = 0, u0 = 0, no contact closed, no contact
\* impulse given, the quaternion of q0 of unit length
AtRest ==
    /\ Moreau /\ pc /= "new"
    /\ h(sys) = <<0, 0, 0, 0>>
    /\ heap[A_u0] = <<0, 0, 0, 0>>
    /\ heap[A_la_N0] = <<0, 0>> /\ heap[A_la_T0] = <<0, 0>>
    /\ \A i \in 1..nla_N : g_N(sys, heap[A_q0])[i] > 0

C20_Original ==
    (Moreau /\ pc = "stepped") =>
        /\ \A i \in 1..nla_N : loc.ret.P_N0[i] = heap[self.P_Nk][i]
        /\ \A c \in 1..nla_T : loc.ret.P_T0[c] = heap[self.P_Tk][c]

-----------------------------------------------------------------------------
(* Properties of the spherical joints (specification SpecJoint) *)

\* C21: in each Moreau step the active set is I_N[i] <=> g_N(tk1, qk1)[i] <= 0
\* at the predicted position qk1 = qk + dt*q_dot(tk, qk, uk), and it is the
\* same set in all prox iterations (the entries of the iterate that belong
\* to inactive contacts are never written); the active friction set is the
\* concatenation of NT_connectivity[i] over the active contacts; in
\* fixed-point mode an inactive contact has accepted normal impulse and
\* friction components zero, and a step without an active contact performs
\* no prox iteration.
C21_ActiveSetOfStep ==
    (Moreau /\ pc = "stepped") =>
        LET r    == loc.ret
            qk1  == q_dot_update(heap[self.qk], dt, heap[self.uk])
            gN   == g_N(sys, qk1)
            I_F  == compute_I_F(r.I_N, NT_connectivity)
            work == r.la_gammak1 + 1
        IN  /\ heap[r.qk1] = qk1
            /\ \A i \in 1..nla_N : r.I_N[i] <=> gN[i] <= 0
            /\ I_T(r.I_N) = {I_F[k] : k \in 1..Len(I_F)}
            /\ Len(I_F) = Cardinality(I_T(r.I_N))
            /\ (\A i \in 1..nla_N : ~r.I_N[i]) => I_F = <<>>
            /\ method = "fixed-point" =>
                  /\ (\A i \in 1..nla_N : ~r.I_N[i]) =>
                        r.iters = 0 /\ r.converged /\ r.j = 0
                  /\ (\E i \in 1..nla_N : r.I_N[i]) =>
                        \A i \in 1..nla_N : ~r.I_N[i] =>
                          /\ heap[work][i] = heap[self.P_Nk][i]
                          /\ \A k \in 1..Len(NT_connectivity[i]) :
                                heap[work + 1][NT_connectivity[i][k]]
                                  = heap[self.P_Tk][NT_connectivity[i][k]]
                  /\ r.converged =>
                        \A i \in 1..nla_N : ~r.I_N[i] =>
                          /\ heap[r.P_Nk1][i] = 0
                          /\ \A k \in 1..Len(NT_connectivity[i]) :
                                heap[r.P_Tk1][NT_connectivity[i][k]] = 0

\* C21 witness: a converged fixed-point step with the ceiling active and the
\* floor inactive, taken after prox iterations from an accepted state whose
\* impulse at the floor was not zero.
C21_Witness ==
    /\ Moreau /\ pc = "stepped" /\ method = "fixed-point"
    /\ loc.ret.converged /\ loc.ret.iters >= 2
    /\ loc.ret.I_N = <<FALSE, TRUE>>
    /\ heap[self.P_Nk][1] /= 0
    /\ heap[loc.ret.P_Nk1] = <<0, heap[loc.ret.P_Nk1][2]>>
    /\ heap[loc.ret.P_Nk1][2] > 0

\* C19 as stated: Spherical_joint2D has nla_g = 2 and, after
\* assembler_callback, every call of g, g_dot, g_ddot, g_q_dense returns the
\* first two rows of what Spherical_joint returns for the same arguments,
\* W_g_dense returns the first two columns of Spherical_joint's W_g_dense,
\* and g_dot_u is the transpose of W_g_dense.
C19_Original ==
    (joint.pc = "assembled" /\ joint.cls = "Spherical_joint2D") =>
        /\ joint.nla_g = 2
        /\ joint.call.assembled =>
              LET base == JointMethod("Spherical_joint", joint.call.name,
                                      joint.attrs, joint.call.x)
              IN  /\ joint.call.raised = "no"
                  /\ joint.call.name \in {"g", "g_dot", "g_ddot", "g_q_dense"} =>
                        joint.call.ret = FirstRows(base.ret, 2)
                  /\ joint.call.name = "W_g_dense" =>
                        joint.call.ret =
                            Transpose(FirstRows(Transpose(base.ret), 2))
                  /\ joint.call.name = "g_dot_u" =>
                        joint.call.ret = FirstRows(base.ret, 2)

\* the part of C19 that concerns g, g_dot, g_ddot and g_q_dense only
C19_RowsOnly ==
    (joint.cls = "Spherical_joint2D" /\ joint.call.assembled
       /\ joint.call.name \in {"g", "g_dot", "g_ddot", "g_q_dense"}) =>
        /\ joint.call.raised = "no"
        /\ joint.call.ret =
              FirstRows(JointMethod("Spherical_joint", joint.call.name,
                                    joint.attrs, joint.call.x).ret, 2)

-----------------------------------------------------------------------------
(* Properties of Radau and RadauIIa (specification SpecRadau) *)

\* the pass of the retry loop recorded in radau.att
Attempted(kind) == radau.mode = "Radau" /\ radau.att.kind = kind

\* C14 as stated: a Newton failure halves the step size; a rejection
\* (error norm > 1) multiplies it by a factor in [MIN_FACTOR, 1); an
\* accepted step proposes a next step size that is at least the accepted
\* one and at most MAX_FACTOR times it.
C14_Original ==
    /\ Attempted("newton_failed") =>
          radau.att.h_next = FracMul(radau.att.h, Frac(1, 2))
    /\ Attempted("rejected") =>
          /\ radau.att.h_next = FracMul(radau.att.h, radau.att.factor)
          /\ ~FracLess(radau.att.factor, MIN_FACTOR)
          /\ FracLess(radau.att.factor, Frac(1, 1))
    /\ Attempted("accepted") =>
          /\ ~FracLess(radau.att.h_next, radau.att.h)
          /\ ~FracLess(FracMul(MAX_FACTOR, radau.att.h), radau.att.h_next)

\* C14 amended: the first two parts as stated; an accepted step proposes
\* h_abs * factor with 0 < factor <= MAX_FACTOR, and the proposal is at
\* least the accepted step size only if no recomputation of the Jacobian is
\* due (recompute_jac false): with recompute_jac the factor
\* min(MAX_FACTOR, safety * factor) is used even when it is below 1.
C14_StepSizePolicy ==
    /\ Attempted("newton_failed") =>
          radau.att.h_next = FracMul(radau.att.h, Frac(1, 2))
    /\ Attempted("rejected") =>
          /\ radau.att.h_next = FracMul(radau.att.h, radau.att.factor)
          /\ ~FracLess(radau.att.factor, MIN_FACTOR)
          /\ FracLess(radau.att.factor, Frac(1, 1))
    /\ Attempted("accepted") =>
          /\ radau.att.h_next = FracMul(radau.att.h, radau.att.factor)
          /\ radau.h_abs = radau.att.h_next
          /\ FracLess(Frac(0, 1), radau.att.factor)
          /\ ~FracLess(MAX_FACTOR, radau.att.factor)
          /\ ~radau.att.recompute_jac =>
                (radau.att.factor = Frac(1, 1)
                   \/ ~FracLess(radau.att.factor, Frac(6, 5)))

\* C14 witness: after a rejection in the same step, a step is accepted with
\* a Jacobian recomputation due and the next step size proposed is smaller
\* than the accepted one.
C14_Witness ==
    /\ Attempted("accepted") /\ radau.loop.rejected
    /\ radau.att.recompute_jac
    /\ FracLess(radau.att.h_next, radau.att.h)

\* the retry loop of Radau._step_impl by itself: every failed pass leaves a
\* step size of at most 9/10 of the one tried, the Jacobian is evaluated at
\* most once in a pass (and only if it was not current), and the loop is
\* left with failure only by TOO_SMALL_STEP with h_abs < min_step
C15_RetryLoop ==
    radau.mode = "Radau" =>
        /\ radau.att.kind \in {"newton_failed", "rejected"} =>
              /\ ~FracLess(FracMul(Frac(9, 10), radau.att.h), radau.att.h_next)
              /\ radau.loop.h_abs = radau.att.h_next
        /\ radau.att.kind = "newton_failed" => radau.loop.current_jac
        /\ radau.att.njac <= 1
        /\ radau.att.njac = 1 => radau.loop.current_jac
        /\ radau.pc = "failed" =>
              /\ radau.att.kind = "TOO_SMALL_STEP"
              /\ FracLess(radau.loop.h_abs, min_step)

\* C15 as stated: the retry loop behaves as C15_RetryLoop says, and a
\* RadauIIa.solve that hands back no trajectory has gone through it: it
\* ends with the assertion error that escalates TOO_SMALL_STEP.
C15_Original ==
    IF radau.mode = "Radau" THEN C15_RetryLoop
    ELSE radau.call.name = "solve" =>
            radau.call.raised \in {"no", "AssertionError"}

\* the index array as handed to Radau (zeros if None)
GivenIndex(i) ==
    IF radau.cfg.index_array.given THEN radau.cfg.index_array.arr[i] ELSE 0

\* C16: with a mass matrix, every error estimate (the first one and the
\* stabilised one after a rejection) has component i of the raw estimate
\* multiplied by h^max(0, index_i - 1): by 1 for index 0, h for index 2,
\* h^2 for index 3; and error_norm^2 is the sum of the squares of
\* error / scale divided by n - nvars_algebraic.
C16_ErrorScaledByIndex ==
    (radau.mode = "Radau" /\ radau.att.kind \in {"rejected", "accepted"}
       /\ radau.cfg.mass_matrix.given) =>
        /\ \A i \in 1..radau.n :
              radau.att.error[i] =
                  FracMul(Frac(radau.att.raw[i], 1),
                          IF GivenIndex(i) = 3
                          THEN FracMul(radau.att.h, radau.att.h)
                          ELSE IF GivenIndex(i) = 2 THEN radau.att.h
                          ELSE Frac(1, 1))
        /\ FracMul(radau.att.err2,
                   Frac((radau.n - Cardinality(radau.cfg.mass_matrix.zero_rows))
                           * radau.att.scale * radau.att.scale, 1))
              = SumSquares(radau.att.error, 1, radau.n)

\* C16 witness: a stabilised estimate (after a rejection) at h = 1/2 for
\* one differential, one index-2 and one index-3 variable with raw errors
\* (1, 3, 3): the scaled error is (1, 3/2, 3/4).
C16_Witness ==
    /\ radau.mode = "Radau" /\ radau.att.kind \in {"rejected", "accepted"}
    /\ radau.att.stabilised
    /\ radau.cfg.index_array.arr = <<0, 2, 3>>
    /\ radau.att.h = Frac(1, 2)
    /\ radau.att.error = <<Frac(1, 1), Frac(3, 2), Frac(3, 4)>>

\* the equation fun_body puts at the entries of piece k of array_split
HoldsOnly(o, k, eq) ==
    \A i \in array_split(o.ny, o.split_y)[k] : fun_body(o)[i] = eq

\* the layout RadauIIa.__init__ and the body of fun (from dy = np.zeros on)
\* define: pieces (q, u, la_g, la_gamma, mu_S, mu_g) of sizes (nq, nu,
\* nla_g, nla_gamma, nla_S, nla_g for "GGL" and 0 otherwise)
C17_Layout ==
    (radau.mode = "RadauIIa" /\ radau.pc = "constructed") =>
        LET o == radau.obj
            pieces == array_split(o.ny, o.split_y)
        IN  /\ o.ny = Len(o.index_array)
            /\ [k \in 1..6 |-> Cardinality(pieces[k])] =
                  <<o.dims.nq, o.dims.nu, o.dims.nla_g, o.dims.nla_gamma,
                    o.dims.nla_S,
                    IF o.dae_index = "GGL" THEN o.dims.nla_g ELSE 0>>
            /\ HoldsOnly(o, 3, IF o.dae_index = "3" THEN "g" ELSE "g_dot")
            /\ HoldsOnly(o, 6, "g")

\* C17 as stated: exactly 2, 3 and "GGL" pass the assertion of the
\* constructor; ny = len(index_array); the state splits as (q, u, la_g,
\* la_gamma, mu_S, mu_g); and what fun returns holds g_dot (index 2 and
\* "GGL") or g (index 3) in the la_g slot and g in the mu_g block.
C17_Original ==
    radau.mode = "RadauIIa" =>
        /\ radau.pc = "constructed" => radau.dae_index \in {"2", "3", "GGL"}
        /\ radau.pc = "raised" =>
              /\ radau.dae_index \notin {"2", "3", "GGL"}
              /\ radau.obj.raised = "AssertionError"
        /\ C17_Layout
        /\ radau.call.name = "fun" =>
              /\ radau.call.raised = "no"
              /\ radau.call.ret = fun_body(radau.obj)

\* C24 as stated: on a RadauIIa with lazy_mass_matrix = True the mass
\* matrix is the identity on the q block and zero on the multiplier blocks,
\* and every evaluation of fun returns and leaves the current M(t, q) in the
\* velocity block.
C24_Original ==
    (radau.mode = "RadauIIa" /\ radau.pc = "constructed"
       /\ radau.obj.lazy_mass_matrix) =>
        /\ radau.obj.mass_matrix.q = "eye"
        /\ radau.obj.mass_matrix.la = "0"
        /\ radau.call.name = "fun" =>
              /\ radau.call.raised = "no"
              /\ radau.obj.mass_matrix.u = "M(t, q)"

\* C26 as stated: on a constructed RadauIIa a call of fun raises nothing
\* and returns the right-hand side, every method it calls on the integrator
\* being defined there, and a call of solve whose integration succeeds
\* returns a Solution.
C26_Original ==
    (radau.mode = "RadauIIa" /\ radau.pc = "constructed") =>
        /\ radau.call.name = "fun" =>
              /\ radau.call.raised # "AttributeError"
              /\ Len(radau.call.ret) = radau.obj.ny
        /\ radau.call.name = "solve" =>
              \/ radau.call.raised = "AssertionError"
              \/ radau.call.raised = "no" /\ radau.call.ret = "Solution"

\* direction * (a - b) as a sign: -1, 0 or 1
DirCmp(direction, a, b) ==
    IF a = b THEN 0
    ELSE IF (direction > 0) = FracLess(b, a) THEN 1 ELSE -1

\* C25: Radau never integrates beyond t_bound.  After __init__ and after
\* every step direction * (t - t_bound) <= 0; every attempt of a step ends
\* at t + direction * h_abs, or exactly at t_bound when that would lie
\* beyond t_bound, and its step size is the distance to that end; an
\* accepted attempt moves t to the end of the attempt, strictly forward in
\* the direction of integration.
C25_NeverBeyondTBound ==
    (radau.mode = "Radau" /\ radau.pc \in {"running", "finished", "failed"}) =>
        LET a    == radau.att
            d    == radau.direction
            tb   == t_bound(d)
            free == FracAdd(a.t_old, [n |-> d * a.h_try.n, d |-> a.h_try.d])
        IN  /\ DirCmp(d, radau.t, tb) <= 0
            /\ (a.kind \in {"newton_failed", "rejected", "accepted"}) =>
                   /\ a.t_new = (IF DirCmp(d, free, tb) > 0 THEN tb ELSE free)
                   /\ DirCmp(d, a.t_new, tb) <= 0
                   /\ a.h = [n |-> d * (FracAdd(a.t_new, [n |-> -a.t_old.n,
                                                         d |-> a.t_old.d])).n,
                             d |-> (FracAdd(a.t_new, [n |-> -a.t_old.n,
                                                      d |-> a.t_old.d])).d]
            /\ (a.kind = "accepted") =>
                   /\ radau.t = a.t_new
                   /\ DirCmp(d, a.t_new, a.t_old) > 0
            /\ (radau.pc = "finished") <=> (radau.t = tb)

\* a backward integration whose last attempt would have passed t_bound,
\* was shortened, was accepted and ended the integration at t_bound
C25_Witness ==
    /\ radau.mode = "Radau" /\ radau.pc = "finished"
    /\ radau.direction = -1
    /\ radau.att.kind = "accepted"
    /\ FracLess(radau.att.h, radau.att.h_try)
    /\ radau.t = t_bound(-1)

-----------------------------------------------------------------------------
(* Properties of LobattoIIIAB (specification SpecLobatto) *)

\* an evaluation of R has just been made inside fsolve
Evaluated == lobatto.pc = "fsolve" /\ lobatto.nev > 0

\* g_N(t_i, Q_i) - prox_r_N * R_N[i - 1] of the last evaluation for stage
\* i = 1 (the second row), and the same with the impulse of stage i itself
LaggedProxArg ==
    LET o  == lobatto.obj
        Y  == unpack_y(o, lobatto.ev.y)
        Q  == q_dot_update(o.qn, o.dt \div 2,
                           [d \in 1..nu |-> Y.U[1][d] + Y.U[2][d]])
    IN  [j \in 1..nla_N |->
           g_N(lobatto.args.sy, Q)[j] - o.prox_r_N[j] * Y.R_N[1][j]]
SameStageProxArg ==
    LET o  == lobatto.obj
        Y  == unpack_y(o, lobatto.ev.y)
        Q  == q_dot_update(o.qn, o.dt \div 2,
                           [d \in 1..nu |-> Y.U[1][d] + Y.U[2][d]])
    IN  [j \in 1..nla_N |->
           g_N(lobatto.args.sy, Q)[j] - o.prox_r_N[j] * Y.R_N[2][j]]

C22_WitnessFrozen ==
    /\ Evaluated /\ ~lobatto.ev.update_indexset
    /\ \E j \in 1..nla_N : lobatto.obj.I[2][j] /= (LaggedProxArg[j] <= 0)

C27_SameOrder ==
    (lobatto.pc = "constructed" /\ lobatto.unpacked # <<>>) =>
        LET x == lobatto.unpacked
        IN  flatten_F(x.U) \o x.u \o flatten_F(x.R_N) \o flatten_F(x.R_F)
              = lobatto.obj.yn

\* the object as it was when fsolve returned, before the accepted state
\* was updated
BeforeAccept ==
    [lobatto.obj EXCEPT !.tn = lobatto.fs.tn, !.qn = lobatto.fs.qn,
                        !.un = lobatto.fs.un, !.P_Nn = lobatto.fs.P_Nn,
                        !.P_Fn = lobatto.fs.P_Fn]

\* the end-of-step values that R computes from the returned solution yn1
FromYn1 == Lobatto_R(BeforeAccept, lobatto.args.sy, lobatto.fs.yn1, FALSE).obj

\* the last entry of a list
Last(xs) == xs[Len(xs)]

\* the rest of the loop body has run on the result of fsolve
AfterFsolve ==
    lobatto.pc \in {"loop", "raised", "returned"} /\ lobatto.fs.yn1 # <<>>

C28_LastEvaluation ==
    (AfterFsolve /\ lobatto.fs.converged /\ lobatto.ev.y = lobatto.fs.yn1) =>
        /\ lobatto.cb = [t |-> FromYn1.tn1, q |-> FromYn1.qn1,
                         u |-> FromYn1.un1]
        /\ Last(lobatto.P_N) = FromYn1.P_Nn1
        /\ Last(lobatto.P_F) = FromYn1.P_Fn1

====
